---- MODULE Spec2Model ----
(***************************************************************************)
(* toysql: the bytecode compiler (toysql/compiler.py) and the bytecode     *)
(* virtual machine (toysql/vmV1.py) as a state machine (Spec), and the     *)
(* tree of toysql/btree.py with its caller (BPlusTreeSpec).                *)
(*                                                                         *)
(* Python values are encoded as records with one tag field, so that values *)
(* of different Python types can be compared:                              *)
(*   None -> [none |-> TRUE]      int n -> [int |-> n]                       *)
(*   str s -> [str |-> s]         Instruction reference -> [ref |-> oid]     *)
(*   Record -> [record |-> values, row_id |-> key]                          *)
(* Python lists are sequences; list index i is sequence index i+1.         *)
(***************************************************************************)
EXTENDS Integers, Sequences, FiniteSets, TLC

VARIABLES
    pager,          \* the database file: [len, trees]; trees[n] = rows of the tree rooted at page n
    compiler,       \* the Compiler object: [state, vm, get_schema, bootstrap, vm_execute_called, pending]
    Memory_address, \* the class attribute Memory.address
    program,        \* the last Program built: [origin, status, instructions, unresolved, schema]
    history,        \* an earlier compile, remembered: [sql_text, schema, instructions, between, again]
    ex,             \* the generator returned by VM.execute: [origin, prog, pc, registers, btrees, status, rows, exc]
    suspended,      \* a second generator of the same VM, which the caller holds while it pulls ex
    bptree,         \* a btree.BPlusTree and its caller: [root, added, result]
    iterator,       \* a PeekIterator and its caller: [it, returned, result, calls]
    constants       \* the module toysql.constants once imported: a record of its names

vars == <<pager, compiler, Memory_address, program, history, ex, suspended, bptree,
          iterator, constants>>

-----------------------------------------------------------------------------
(* Bounds of the model *)

\* a new execution starts only while the file has at most MaxPages pages
\* and no tree has more than MaxRows rows
MaxPages == 3
MaxRows == 2

\* the allocations of one Memory that are looked at
MaxAllocs == 8

\* the trees a PeekIterator is made over hold rows with ids among
\* 1..MaxScan, and its caller makes at most MaxCalls calls
MaxScan == 3
MaxCalls == 5

\* toysql.constants is evaluated for page sizes of 512 * (1..MaxPageUnits) bytes
MaxPageUnits == 16

\* the row ids handed to BPlusTree.add are 1..MaxKey
MaxKey == 14

\* the programs of which the caller holds two executions at a time
Interleaved == {"ScanT", "InsertT"}

-----------------------------------------------------------------------------
(* Values *)

None == [none |-> TRUE]
IntV(n) == [int |-> n]
StrV(s) == [str |-> s]
RefV(oid) == [ref |-> oid]
AffV(chars) == [aff |-> chars]      \* a str used as a type-affinity string, as its characters

IsNone(v) == DOMAIN v = {"none"}
IsInt(v) == DOMAIN v = {"int"}
IsStr(v) == DOMAIN v = {"str"}
IsRef(v) == DOMAIN v = {"ref"}
IsAff(v) == DOMAIN v = {"aff"}
IsRecord(v) == DOMAIN v = {"record", "row_id"}

\* len(s) for the strings of the model
StrLen(s) ==
    CASE s = "table" -> 5
      [] s = "schema" -> 6
      [] s = "t" -> 1
      [] s = "x" -> 1
      [] s = "CREATE TABLE schema (id INT, name text(12), sql_text text(500), root_page_number INT);" -> 86
      [] s = "CREATE TABLE t(a INT, b TEXT)" -> 29
      [] OTHER -> 0

\* int(s) for the numeric literals of the model
StrToInt(s) ==
    CASE s = "1" -> 1
      [] s = "2" -> 2
      [] OTHER -> 0

-----------------------------------------------------------------------------
(* Instruction and Program.resolve_refs *)

\* the dataclass Instruction; oid is the identity of the Python object and
\* takes no part in ==
Instruction(oid, opcode, p1, p2, p3, p4) ==
    [oid |-> oid, opcode |-> opcode, p1 |-> p1, p2 |-> p2, p3 |-> p3, p4 |-> p4, p5 |-> 0]

\* the object a reference points to, looked up in the list that holds it
Deref(instructions, oid) ==
    instructions[CHOOSE k \in 1..Len(instructions) : instructions[k].oid = oid]

InList(instructions, oid) == \E k \in 1..Len(instructions) : instructions[k].oid = oid

\* Instruction.__eq__ generated by @dataclass: field-wise comparison of
\* (opcode, p1, p2, p3, p4, p5); a referenced Instruction compares by its
\* own fields in turn (identical objects are equal)
RECURSIVE InstructionEq(_, _, _, _)
OperandEq(x, y, instructions, fuel) ==
    IF IsRef(x) /\ IsRef(y)
    THEN \/ x.ref = y.ref
         \/ /\ fuel > 0
            /\ InList(instructions, x.ref) /\ InList(instructions, y.ref)
            /\ InstructionEq(Deref(instructions, x.ref), Deref(instructions, y.ref),
                             instructions, fuel - 1)
    ELSE x = y
InstructionEq(a, b, instructions, fuel) ==
    /\ a.opcode = b.opcode
    /\ OperandEq(a.p1, b.p1, instructions, fuel)
    /\ OperandEq(a.p2, b.p2, instructions, fuel)
    /\ a.p3 = b.p3
    /\ a.p4 = b.p4
    /\ a.p5 = b.p5

\* list.index(x): the index of the first element equal to x (0-based)
ListIndex(instructions, oid) ==
    LET target == Deref(instructions, oid)
        first == CHOOSE k \in 1..Len(instructions) :
                    /\ InstructionEq(instructions[k], target, instructions, Len(instructions))
                    /\ \A j \in 1..(k - 1) :
                          ~InstructionEq(instructions[j], target, instructions, Len(instructions))
    IN first - 1

\* one iteration of the loop of resolve_refs, on the instruction at list index i
ResolveOne(instructions, i) ==
    LET s1 == IF IsRef(instructions[i].p1)
              THEN [instructions EXCEPT ![i].p1 = IntV(ListIndex(instructions, instructions[i].p1.ref))]
              ELSE instructions
    IN IF IsRef(s1[i].p2)
       THEN [s1 EXCEPT ![i].p2 = IntV(ListIndex(s1, s1[i].p2.ref))]
       ELSE s1

\* the loop of resolve_refs from list index i on (the list after one
\* iteration is bound as a value before the next iteration reads it)
RECURSIVE ResolveFrom(_, _)
ResolveFrom(instructions, i) ==
    IF i > Len(instructions) THEN instructions
    ELSE CHOOSE r \in {ResolveFrom(resolved, i + 1) :
                         resolved \in {ResolveOne(instructions, i)}} : TRUE

\* a resolve_refs that rewrites nothing
resolve_refs_skipped(instructions) == instructions

\* Program.resolve_refs
resolve_refs(instructions) == ResolveFrom(instructions, 1)

-----------------------------------------------------------------------------
(* Lexer and parser: the statements of the model *)

\* the members of the enum Kind
Kind == {"keyword", "symbol", "identifier", "string", "numeric", "bool", "null"}

SCHEMA_TABLE_NAME == "schema"
SCHEMA_TABLE_SQL_TEXT ==
    "CREATE TABLE schema (id INT, name text(12), sql_text text(500), root_page_number INT);"

SelectSchemaText == "SELECT * from schema"
CreateTText == "CREATE TABLE t(a INT, b TEXT)"
InsertTText == "INSERT INTO t VALUES(1,'x')"
SelectTText == "SELECT * FROM t"
SelectBText == "SELECT b FROM t"
SelectUText == "SELECT * FROM u"
InsertUText == "INSERT INTO u VALUES(1,'x')"
TwoStatementsText == "SELECT * FROM t; SELECT * FROM t"

\* the SQL texts handed to Compiler.compile
SqlTexts == {SCHEMA_TABLE_SQL_TEXT, SelectSchemaText, CreateTText, InsertTText,
             SelectTText, SelectBText, SelectUText, InsertUText, TwoStatementsText}

Token(value, kind) == [value |-> value, kind |-> kind]

SelectStatement(from, items) == [stmt |-> "select", from |-> from, items |-> items]
InsertStatement(into, values) == [stmt |-> "insert", into |-> into, values |-> values]
CreateStatement(table, columns) == [stmt |-> "create", table |-> table, columns |-> columns]

\* Compiler.prepare: lexer.lex then parser.parse, on the texts of the model
prepare(sql_text) ==
    CASE sql_text = SCHEMA_TABLE_SQL_TEXT ->
            <<CreateStatement("schema", <<"id", "name", "sql_text", "root_page_number">>)>>
      [] sql_text = SelectSchemaText -> <<SelectStatement("schema", <<"*">>)>>
      [] sql_text = CreateTText -> <<CreateStatement("t", <<"a", "b">>)>>
      [] sql_text = InsertTText ->
            <<InsertStatement("t", <<Token("1", "numeric"), Token("x", "string")>>)>>
      [] sql_text = SelectTText -> <<SelectStatement("t", <<"*">>)>>
      [] sql_text = SelectBText -> <<SelectStatement("t", <<"b">>)>>
      [] sql_text = SelectUText -> <<SelectStatement("u", <<"*">>)>>
      [] sql_text = InsertUText ->
            <<InsertStatement("u", <<Token("1", "numeric"), Token("x", "string")>>)>>
      [] sql_text = TwoStatementsText ->
            <<SelectStatement("t", <<"*">>), SelectStatement("t", <<"*">>)>>
      [] OTHER -> <<>>

-----------------------------------------------------------------------------
(* Memory *)

\* Memory(): the instance reads the class attribute until its first write
Memory(class_address) == [address |-> class_address]

\* a next_addr that returns the counter after its increment
next_addr_returns_new(memory) ==
    [memory |-> [address |-> memory.address + 1], value |-> memory.address + 1]

\* Memory.next_addr: the instance after the call, and the value returned
next_addr(memory) ==
    [memory |-> [address |-> memory.address + 1], value |-> (memory.address + 1) - 1]

\* the value returned by the k-th call of next_addr on a Memory (k >= 1)
RECURSIVE Alloc(_, _)
Alloc(memory, k) ==
    IF k = 1 THEN next_addr(memory).value ELSE Alloc(next_addr(memory).memory, k - 1)

\* a next_addr that wrote the class attribute: every Memory() would start
\* where the last one stopped
MemoryClassAddressShared(class_address, calls) == class_address + calls

\* the class attribute Memory.address after a compile that made `calls`
\* calls of next_addr on its own instance: the instance attribute shadows it
MemoryClassAddressAfter(class_address, calls) == class_address

-----------------------------------------------------------------------------
(* Compiler: schema lookups.  `schema` is what get_schema() gives:          *)
(* [status, rows]; status "ok" when it returns its rows, otherwise the way *)
(* the call ends (an exception, or "hang" when the VM never finishes).      *)

Ok(value) == [status |-> "ok", value |-> value]
Failed(status) == [status |-> status, value |-> <<>>]

\* list.index(x) on a list of names
RECURSIVE NameIndex(_, _, _)
NameIndex(names, name, i) ==
    IF i > Len(names) THEN Failed("ValueError")
    ELSE IF names[i] = name THEN Ok(i - 1)
    ELSE NameIndex(names, name, i + 1)

\* get_column_names_from_sql_text after [statement] = self.prepare(sql_text)
ColumnNamesOf(stmts) ==
    IF Len(stmts) # 1 THEN Failed("ValueError")
    ELSE CASE stmts[1].stmt = "select" -> Ok(SelectSeq(stmts[1].items, LAMBDA c : c # "*"))
           [] stmts[1].stmt = "create" -> Ok(SelectSeq(stmts[1].columns, LAMBDA c : c # "*"))
           [] stmts[1].stmt = "insert" -> Failed("TypeError")

\* Compiler.get_column_names_from_sql_text
get_column_names_from_sql_text(sql_text) ==
    IF ~IsStr(sql_text) THEN Failed("AttributeError")
    ELSE ColumnNamesOf(prepare(sql_text.str))

\* the loop over get_schema() of get_table_column_names
RECURSIVE ColumnNamesFrom(_, _, _)
ColumnNamesFrom(rows, table_name, i) ==
    IF i > Len(rows) THEN Failed("TableFoundException")
    ELSE IF Len(rows[i]) < 3 THEN Failed("IndexError")
    ELSE IF rows[i][3] = StrV(table_name)
         THEN IF Len(rows[i]) < 5 THEN Failed("IndexError")
              ELSE get_column_names_from_sql_text(rows[i][5])
    ELSE ColumnNamesFrom(rows, table_name, i + 1)

\* Compiler.get_table_column_names
get_table_column_names(table_name, schema) ==
    IF table_name = SCHEMA_TABLE_NAME
    THEN get_column_names_from_sql_text(StrV(SCHEMA_TABLE_SQL_TEXT))
    ELSE IF schema.status # "ok" THEN Failed(schema.status)
    ELSE ColumnNamesFrom(schema.rows, table_name, 1)

\* the loop over statement.items of get_column_indexes
RECURSIVE ColumnIndexFrom(_, _, _, _)
ColumnIndexFrom(items, column_names, i, column_index) ==
    IF i > Len(items) THEN Ok(column_index)
    ELSE IF items[i] = "*" THEN Ok([k \in 1..Len(column_names) |-> k - 1])
    ELSE LET at == NameIndex(column_names, items[i], 1)
         IN IF at.status # "ok" THEN Failed(at.status)
            ELSE ColumnIndexFrom(items, column_names, i + 1, Append(column_index, at.value))

\* get_column_indexes once column_names is known
ColumnIndexes(statement, column_names) ==
    IF column_names.status # "ok" THEN Failed(column_names.status)
    ELSE ColumnIndexFrom(statement.items, column_names.value, 1, <<>>)

\* Compiler.get_column_indexes
get_column_indexes(statement, schema) ==
    ColumnIndexes(statement, get_table_column_names(statement.from, schema))

\* the loop over get_schema() of get_table_root_page_number
RECURSIVE RootPageFrom(_, _, _)
RootPageFrom(rows, table_name, i) ==
    IF i > Len(rows) THEN Failed("TableFoundException")
    ELSE IF Len(rows[i]) < 3 THEN Failed("IndexError")
    ELSE IF rows[i][3] = StrV(table_name)
         THEN IF Len(rows[i]) < 6 THEN Failed("IndexError") ELSE Ok(rows[i][6])
    ELSE RootPageFrom(rows, table_name, i + 1)

\* a lookup that gives page 0 for a table no catalog row names
get_table_root_page_number_or_zero(table_name, schema) ==
    IF table_name = SCHEMA_TABLE_NAME THEN Ok(IntV(0))
    ELSE IF schema.status # "ok" THEN Failed(schema.status)
    ELSE IF \E i \in 1..Len(schema.rows) : schema.rows[i][3] = StrV(table_name)
    THEN Ok(schema.rows[CHOOSE i \in 1..Len(schema.rows) : schema.rows[i][3] = StrV(table_name)][6])
    ELSE Ok(IntV(0))

\* Compiler.get_table_root_page_number
get_table_root_page_number(table_name, schema) ==
    IF table_name = SCHEMA_TABLE_NAME THEN Ok(IntV(0))
    ELSE IF schema.status # "ok" THEN Failed(schema.status)
    ELSE RootPageFrom(schema.rows, table_name, 1)

-----------------------------------------------------------------------------
(* Compiler.compile *)

Compiled(instructions) == [status |-> "ok", instructions |-> instructions]
Raised(status) == [status |-> status, instructions |-> <<>>, unresolved |-> <<>>]

\* a select branch whose Next jumps back to the Rewind
SelectProgramNextToRewind(table_page_number, indexes, memory) ==
    LET column_count == 4
        table_cursor == 0
        key_addr == Alloc(memory, 2)
    IN IF table_page_number.status # "ok" THEN Raised(table_page_number.status)
       ELSE IF indexes.status # "ok" THEN Raised(indexes.status)
       ELSE LET n == Len(indexes.value)
                close == Instruction(3, "Close", IntV(0), IntV(0), 0, None)
                columns == [i \in 1..n |->
                              Instruction(5 + i, "Column", IntV(0), IntV(indexes.value[i]),
                                          Alloc(memory, 2 + i), None)]
            IN Compiled(
                 <<Instruction(1, "Integer", table_page_number.value, IntV(Alloc(memory, 1)), 0, None),
                   Instruction(2, "OpenRead", IntV(table_cursor), IntV(0), column_count, None),
                   Instruction(4, "Rewind", IntV(0), RefV(close.oid), 0, None),
                   Instruction(5, "Key", IntV(0), IntV(key_addr), 0, None)>>
                 \o columns
                 \o <<Instruction(6 + n, "ResultRow", IntV(key_addr), IntV(n + 1), 0, None),
                      Instruction(7 + n, "Next", IntV(0), IntV(2), 0, None),
                      close,
                      Instruction(8 + n, "Halt", IntV(0), IntV(0), 0, None)>>)

\* the SelectStatement branch of compile, once the root page number and the
\* column indexes are looked up
SelectProgram(table_page_number, indexes, memory) ==
    LET column_count == 4
        table_cursor == 0
        key_addr == Alloc(memory, 2)
    IN IF table_page_number.status # "ok" THEN Raised(table_page_number.status)
       ELSE IF indexes.status # "ok" THEN Raised(indexes.status)
       ELSE LET n == Len(indexes.value)
                close == Instruction(3, "Close", IntV(0), IntV(0), 0, None)
                columns == [i \in 1..n |->
                              Instruction(5 + i, "Column", IntV(0), IntV(indexes.value[i]),
                                          Alloc(memory, 2 + i), None)]
            IN Compiled(
                 <<Instruction(1, "Integer", table_page_number.value, IntV(Alloc(memory, 1)), 0, None),
                   Instruction(2, "OpenRead", IntV(table_cursor), IntV(0), column_count, None),
                   Instruction(4, "Rewind", IntV(0), RefV(close.oid), 0, None),
                   Instruction(5, "Key", IntV(0), IntV(key_addr), 0, None)>>
                 \o columns
                 \o <<Instruction(6 + n, "ResultRow", IntV(key_addr), IntV(n + 1), 0, None),
                      Instruction(7 + n, "Next", IntV(0), IntV(3), 0, None),
                      close,
                      Instruction(8 + n, "Halt", IntV(0), IntV(0), 0, None)>>)

\* the SelectStatement branch of compile
CompileSelect(statement, schema, memory) ==
    SelectProgram(get_table_root_page_number(statement.from, schema),
                  get_column_indexes(statement, schema), memory)

\* the literal-load instruction the loop over statement.values appends for
\* the token at list index i (none when the token's kind matches neither test)
InsertLiteral(token, i, addr) ==
    IF token.kind = "integer"
    THEN <<Instruction(2 + i, "Integer", IntV(StrToInt(token.value)), IntV(addr), 0, None)>>
    ELSE IF token.kind = "text"
    THEN <<Instruction(2 + i, "String", IntV(StrLen(token.value)), IntV(addr), 0, StrV(token.value))>>
    ELSE <<>>

RECURSIVE InsertLiterals(_, _, _)
InsertLiterals(values, memory, i) ==
    IF i > Len(values) THEN <<>>
    ELSE InsertLiteral(values[i], i, Alloc(memory, 1 + i)) \o InsertLiterals(values, memory, i + 1)

\* the InsertStatement branch of compile, once the root page number is
\* looked up
InsertProgram(statement, table_page_number, memory) ==
    LET table_cursor == 0
        table_page_number_addr == Alloc(memory, 1)
        n == Len(statement.values)
        first_column_addr == IF n = 0 THEN None ELSE IntV(Alloc(memory, 2))
        record_addr == Alloc(memory, 2 + n)
    IN IF table_page_number.status # "ok" THEN Raised(table_page_number.status)
       \* Kind.integer and Kind.text are looked up on the enum for every token
       ELSE IF n > 0 /\ ~({"integer", "text"} \subseteq Kind) THEN Raised("AttributeError")
       \* assert first_column_addr
       ELSE IF first_column_addr \in {None, IntV(0)} THEN Raised("AssertionError")
       ELSE Compiled(
              <<Instruction(1, "Integer", table_page_number.value, IntV(table_page_number_addr), 0, None),
                Instruction(2, "OpenWrite", IntV(table_cursor), IntV(table_page_number_addr), 3, None)>>
              \o InsertLiterals(statement.values, memory, 1)
              \o <<Instruction(3 + n, "MakeRecord", first_column_addr, IntV(n), record_addr, None),
                   Instruction(4 + n, "Insert", IntV(table_cursor), IntV(record_addr),
                               first_column_addr.int, None),
                   Instruction(5 + n, "Close", IntV(table_cursor), IntV(0), 0, None)>>)

\* the InsertStatement branch of compile
CompileInsert(statement, schema, memory) ==
    InsertProgram(statement, get_table_root_page_number(statement.into, schema), memory)

\* the CreateStatement branch of compile
CompileCreate(statement, sql_text, memory) ==
    LET schema_root_page_num == 0
        schema_root_page_num_addr == Alloc(memory, 1)
        schema_type_addr == Alloc(memory, 2)
        schema_type == "table"
        item_name_addr == Alloc(memory, 3)
        item_name == statement.table
        associated_table_name_addr == Alloc(memory, 4)
        associated_table_name == statement.table
        root_page_num_addr == Alloc(memory, 5)
        text_addr == Alloc(memory, 6)
        column_count == 5
        schema_cursor == 0
        record_addr == Alloc(memory, 7)
        primary_key == 1
        primary_key_addr == Alloc(memory, 8)
    IN Compiled(
         <<Instruction(1, "Integer", IntV(schema_root_page_num), IntV(schema_root_page_num_addr), 0, None),
           Instruction(2, "OpenWrite", IntV(schema_cursor), IntV(schema_root_page_num_addr),
                       column_count, None),
           Instruction(3, "CreateTable", IntV(root_page_num_addr), IntV(0), 0, None),
           Instruction(4, "String", IntV(StrLen(schema_type)), IntV(schema_type_addr), 0, StrV(schema_type)),
           Instruction(5, "String", IntV(StrLen(item_name)), IntV(item_name_addr), 0, StrV(item_name)),
           Instruction(6, "String", IntV(StrLen(associated_table_name)),
                       IntV(associated_table_name_addr), 0, StrV(associated_table_name)),
           Instruction(7, "String", IntV(StrLen(sql_text)), IntV(text_addr), 0, StrV(sql_text)),
           Instruction(8, "MakeRecord", IntV(schema_type_addr), IntV(column_count), record_addr, None),
           Instruction(9, "Integer", IntV(primary_key), IntV(primary_key_addr), 0, None),
           Instruction(10, "Insert", IntV(schema_cursor), IntV(record_addr), primary_key_addr, None),
           Instruction(11, "Close", IntV(schema_cursor), IntV(0), 0, None)>>)

\* the number of next_addr calls a compile makes on its Memory
AllocCalls(statement, outcome) ==
    IF outcome.status # "ok" THEN 0
    ELSE CASE statement.stmt = "select" -> Len(outcome.instructions) - 6
           [] statement.stmt = "insert" -> 2 + Len(statement.values)
           [] statement.stmt = "create" -> 8

\* the isinstance chain of compile
CompileStatement(statement, sql_text, schema, memory) ==
    CASE statement.stmt = "select" -> CompileSelect(statement, schema, memory)
      [] statement.stmt = "insert" -> CompileInsert(statement, schema, memory)
      [] statement.stmt = "create" -> CompileCreate(statement, sql_text, memory)

\* program.resolve_refs() and return program, unless a branch raised
Resolved(outcome) ==
    IF outcome.status # "ok" THEN outcome
    ELSE [status |-> "ok", instructions |-> resolve_refs(outcome.instructions),
          unresolved |-> outcome.instructions]

\* Compiler.compile(sql_text), given what get_schema() gives and the class
\* attribute Memory.address: [status, instructions, unresolved], unresolved
\* being the instruction list before resolve_refs
compile(sql_text, schema, class_address) ==
    \* [statement] = self.prepare(sql_text)
    IF Len(prepare(sql_text)) # 1 THEN Raised("ValueError")
    ELSE Resolved(CompileStatement(prepare(sql_text)[1], sql_text, schema, Memory(class_address)))

-----------------------------------------------------------------------------
(* Pager, BTree and Record: the storage the VM drives *)

\* Record(values): a record with no row id yet
Record(values) == [record |-> values, row_id |-> None]

\* Pager.new: allocates the next page and returns its number
PagerNew(pg) ==
    [pager |-> [len |-> pg.len + 1,
                trees |-> [n \in 0..pg.len |-> IF n < pg.len THEN pg.trees[n] ELSE <<>>]],
     page_number |-> pg.len]

\* the largest key of a tree (0 when it has no row)
MaxRowId(tree) ==
    IF tree = <<>> THEN 0
    ELSE CHOOSE m \in {tree[i].row_id.int : i \in 1..Len(tree)} :
            \A i \in 1..Len(tree) : tree[i].row_id.int <= m

\* BTree.new_row_id
BTreeNewRowId(tree) == MaxRowId(tree) + 1

\* BTree.insert: the record gets a row id when it has none, and goes to its
\* place in key order (an equal key is overwritten)
BTreeInsert(tree, record) ==
    LET keyed == IF IsNone(record.row_id)
                 THEN [record EXCEPT !.row_id = IntV(BTreeNewRowId(tree))]
                 ELSE record
        k == keyed.row_id.int
        below == SelectSeq(tree, LAMBDA r : r.row_id.int < k)
        above == SelectSeq(tree, LAMBDA r : r.row_id.int > k)
    IN [tree |-> below \o <<keyed>> \o above, record |-> keyed]

\* BTree.find: the row with that key, or None
BTreeFind(tree, key) ==
    IF \E i \in 1..Len(tree) : tree[i].row_id = key
    THEN tree[CHOOSE i \in 1..Len(tree) : tree[i].row_id = key]
    ELSE None

-----------------------------------------------------------------------------
(* PeekIterator *)

\* PeekIterator(BTree(pager, root)): the tree object read from the pager,
\* a scan of it that has not started, and an empty deque
PeekIterator(pg, root) ==
    [root |-> root, tree |-> pg.trees[root], pos |-> 0, ended |-> FALSE, peeked |-> <<>>]

\* PeekIterator.safe_next: the iterator after the call and the value returned
safe_next(it) ==
    IF ~it.ended /\ it.pos < Len(it.tree)
    THEN [it |-> [it EXCEPT !.pos = @ + 1], value |-> it.tree[it.pos + 1]]
    ELSE [it |-> [it EXCEPT !.ended = TRUE], value |-> None]

\* PeekIterator.peek(ahead=0)
peek(it) ==
    IF Len(it.peeked) <= 0
    THEN LET n == safe_next(it)
         IN [it |-> [n.it EXCEPT !.peeked = Append(@, n.value)], value |-> n.value]
    ELSE [it |-> it, value |-> it.peeked[1]]

\* a __next__ that goes to the scan whatever was peeked
next_drops_peeked(it) == safe_next(it)

\* PeekIterator.__next__
next(it) ==
    IF it.peeked # <<>>
    THEN [it |-> [it EXCEPT !.peeked = Tail(@)], value |-> it.peeked[1]]
    ELSE safe_next(it)

-----------------------------------------------------------------------------
(* VM.execute: the generator's state and the helpers of its handlers *)

\* the opcodes VM.execute has an `if` for
Handled ==
    {"Init", "Transaction", "CreateBtree", "Goto", "SCopy", "OpenWrite", "OpenRead",
     "SoftNull", "NotNull", "IsNull", "String", "Integer", "NewRowid", "SeekRowid",
     "MustBeInt", "Noop", "NotExists", "Rewind", "Rowid", "Column", "MakeRecord",
     "ResultRow", "Insert", "Next", "Halt"}

\* the members of the enum Opcode
Opcode == Handled \cup {"CreateTable", "Null", "Key", "Close"}

NoExecution ==
    [origin |-> "", prog |-> <<>>, pc |-> 0, registers |-> <<>>, btrees |-> <<>>,
     status |-> "none", rows |-> <<>>, exc |-> None]

\* an execute whose registers and cursor table belong to the VM object and
\* are those of the VM's other execution
NewExecutionSharedFrame(origin, instructions) ==
    [NoExecution EXCEPT !.origin = origin, !.prog = instructions, !.status = "created",
                        !.registers = suspended.registers, !.btrees = suspended.btrees]

\* an execute that starts running its program at the call
NewExecutionEager(origin, instructions) ==
    [NoExecution EXCEPT !.origin = origin, !.prog = instructions, !.status = "running"]

\* vm.execute(program): a generator that has run nothing yet; btrees,
\* registers and cursor are set up at its first resumption
NewExecution(origin, instructions) ==
    [NoExecution EXCEPT !.origin = origin, !.prog = instructions, !.status = "created"]

Outcome(e, pg) == [ex |-> e, pager |-> pg]

Raise(e, type, arg) == [e EXCEPT !.status = "error", !.exc = [type |-> type, arg |-> arg]]

\* cursor += 1
Advance(e) == [e EXCEPT !.pc = @ + 1]

\* cursor = cast(int, instruction.p2); an operand that is no int fails at
\* the next fetch
Jump(e, p2) == IF IsInt(p2) THEN [e EXCEPT !.pc = p2.int] ELSE Raise(e, "TypeError", p2)

\* d[k] = v on a dict
DictSet(d, k, v) == [x \in DOMAIN d \cup {k} |-> IF x = k THEN v ELSE d[x]]

\* registers[key] = v; cursor += 1
SetRegister(e, key, v) ==
    IF ~IsInt(key) THEN Raise(e, "TypeError", key)
    ELSE Advance([e EXCEPT !.registers = DictSet(@, key.int, v)])

HasRegister(e, key) == IsInt(key) /\ key.int \in DOMAIN e.registers
HasCursor(e, key) == IsInt(key) /\ key.int \in DOMAIN e.btrees

-----------------------------------------------------------------------------
(* VM.execute: one handler per opcode.  Each gives the generator and the   *)
(* pager after the handler ran on `instruction`.                            *)

OpInit(e, pg, instruction) == Outcome(Jump(e, instruction.p2), pg)

OpTransaction(e, pg, instruction) == Outcome(Advance(e), pg)

OpCreateBtree(e, pg, instruction) ==
    LET new == PagerNew(pg)
    IN Outcome(SetRegister(e, instruction.p2, IntV(new.page_number)), new.pager)

OpGoto(e, pg, instruction) == Outcome(Jump(e, instruction.p2), pg)

OpSCopy(e, pg, instruction) ==
    IF ~HasRegister(e, instruction.p1) THEN Outcome(Raise(e, "KeyError", instruction.p1), pg)
    ELSE Outcome(SetRegister(e, instruction.p2, e.registers[instruction.p1.int]), pg)

\* OpenWrite and OpenRead have the same body
OpOpen(e, pg, instruction) ==
    IF ~(IsInt(instruction.p2) /\ instruction.p2.int \in 0..(pg.len - 1))
    THEN Outcome(Raise(e, "PageNotFoundException", instruction.p2), pg)
    ELSE IF ~IsInt(instruction.p1) THEN Outcome(Raise(e, "TypeError", instruction.p1), pg)
    ELSE Outcome(Advance([e EXCEPT !.btrees =
                    DictSet(@, instruction.p1.int, PeekIterator(pg, instruction.p2.int))]), pg)

OpSoftNull(e, pg, instruction) == Outcome(Advance(e), pg)

OpNotNull(e, pg, instruction) ==
    IF ~HasRegister(e, instruction.p1) THEN Outcome(Raise(e, "KeyError", instruction.p1), pg)
    ELSE IF ~IsNone(e.registers[instruction.p1.int]) THEN Outcome(Jump(e, instruction.p2), pg)
    ELSE Outcome(Advance(e), pg)

OpIsNull(e, pg, instruction) ==
    IF ~HasRegister(e, instruction.p1) THEN Outcome(Raise(e, "KeyError", instruction.p1), pg)
    ELSE IF IsNone(e.registers[instruction.p1.int]) THEN Outcome(Jump(e, instruction.p2), pg)
    ELSE Outcome(Advance(e), pg)

OpString(e, pg, instruction) == Outcome(SetRegister(e, instruction.p2, instruction.p4), pg)

OpInteger(e, pg, instruction) == Outcome(SetRegister(e, instruction.p2, instruction.p1), pg)

OpNewRowid(e, pg, instruction) ==
    IF ~HasCursor(e, instruction.p1) THEN Outcome(Raise(e, "KeyError", instruction.p1), pg)
    ELSE Outcome(SetRegister(e, instruction.p2,
                             IntV(BTreeNewRowId(e.btrees[instruction.p1.int].tree))), pg)

\* the inner while loop of SeekRowid: the iterator it leaves and found
RECURSIVE SeekLoop(_, _)
SeekLoop(it, key) ==
    LET next_record == peek(it)
    IN IF IsNone(next_record.value) THEN [it |-> next_record.it, found |-> FALSE]
       ELSE IF next_record.value.row_id = key THEN [it |-> next_record.it, found |-> TRUE]
       ELSE SeekLoop(next(next_record.it).it, key)

OpSeekRowid(e, pg, instruction) ==
    IF ~HasCursor(e, instruction.p1) THEN Outcome(Raise(e, "KeyError", instruction.p1), pg)
    ELSE LET bt == e.btrees[instruction.p1.int]
         IN IF peek(bt).value # None /\ ~HasRegister(e, IntV(instruction.p3))
            THEN Outcome(Raise([e EXCEPT !.btrees[instruction.p1.int] = peek(bt).it],
                               "KeyError", IntV(instruction.p3)), pg)
            ELSE LET key == IF HasRegister(e, IntV(instruction.p3))
                            THEN e.registers[instruction.p3] ELSE None
                     seek == SeekLoop(bt, key)
                     moved == [e EXCEPT !.btrees[instruction.p1.int] = seek.it]
                 IN IF ~seek.found THEN Outcome(Jump(moved, instruction.p2), pg)
                    ELSE Outcome(Advance(moved), pg)

\* s is a str that int(s) converts
IsNumeric(s) == s \in {"1", "2"}

OpMustBeInt(e, pg, instruction) ==
    IF ~HasRegister(e, instruction.p1) THEN Outcome(Raise(e, "KeyError", instruction.p1), pg)
    ELSE LET v == e.registers[instruction.p1.int]
         IN CASE IsInt(v) -> Outcome(Advance(e), pg)
              [] IsStr(v) /\ IsNumeric(v.str) ->
                    Outcome(Advance([e EXCEPT !.registers[instruction.p1.int] = IntV(StrToInt(v.str))]), pg)
              \* int(str) raises ValueError, which the handler catches
              [] IsStr(v) /\ ~IsNumeric(v.str) ->
                    IF instruction.p2 = IntV(0)
                    THEN Outcome(Raise(e, "ValueError", StrV("TOYSQL TYPE MISMATCH")), pg)
                    ELSE Outcome(Jump(e, instruction.p2), pg)
              \* int(None) and int(Record) raise TypeError, which it does not catch
              [] OTHER -> Outcome(Raise(e, "TypeError", v), pg)

OpNoop(e, pg, instruction) == Outcome(Advance(e), pg)

OpNotExists(e, pg, instruction) ==
    IF ~HasCursor(e, instruction.p1) THEN Outcome(Raise(e, "KeyError", instruction.p1), pg)
    ELSE IF ~HasRegister(e, IntV(instruction.p3))
    THEN Outcome(Raise(e, "KeyError", IntV(instruction.p3)), pg)
    ELSE LET record == BTreeFind(e.btrees[instruction.p1.int].tree, e.registers[instruction.p3])
         IN IF ~IsNone(record) THEN Outcome(Raise(e, "Exception", StrV("It found")), pg)
            ELSE Outcome(Jump(e, instruction.p2), pg)

OpRewind(e, pg, instruction) ==
    IF ~HasCursor(e, instruction.p1) THEN Outcome(Raise(e, "KeyError", instruction.p1), pg)
    ELSE LET row == peek(e.btrees[instruction.p1.int])
             peeked == [e EXCEPT !.btrees[instruction.p1.int] = row.it]
         IN IF IsNone(row.value) THEN Outcome(Jump(peeked, instruction.p2), pg)
            ELSE Outcome(Advance(peeked), pg)

OpRowid(e, pg, instruction) ==
    IF ~HasCursor(e, instruction.p1) THEN Outcome(Raise(e, "KeyError", instruction.p1), pg)
    ELSE LET row == peek(e.btrees[instruction.p1.int])
             peeked == [e EXCEPT !.btrees[instruction.p1.int] = row.it]
         IN IF IsNone(row.value) THEN Outcome(Raise(peeked, "AttributeError", StrV("row_id")), pg)
            ELSE Outcome(SetRegister(peeked, instruction.p2, row.value.row_id), pg)

OpColumn(e, pg, instruction) ==
    IF ~HasCursor(e, instruction.p1) THEN Outcome(Raise(e, "KeyError", instruction.p1), pg)
    ELSE LET row == peek(e.btrees[instruction.p1.int])
             peeked == [e EXCEPT !.btrees[instruction.p1.int] = row.it]
         IN IF IsNone(row.value) THEN Outcome(Raise(peeked, "AttributeError", StrV("values")), pg)
            ELSE IF ~(IsInt(instruction.p2) /\ instruction.p2.int + 1 \in 1..Len(row.value.record))
            THEN Outcome(Raise(peeked, "IndexError", instruction.p2), pg)
            ELSE IF Len(row.value.record[instruction.p2.int + 1]) < 2
            THEN Outcome(Raise(peeked, "IndexError", instruction.p2), pg)
            ELSE Outcome(SetRegister(peeked, IntV(instruction.p3),
                                     row.value.record[instruction.p2.int + 1][2]), pg)

\* the [DataType, value] pair MakeRecord builds for one field
Field(type_affinity, value) ==
    CASE type_affinity = "D" -> <<[datatype |-> "integer"], value>>
      [] type_affinity = "B" -> <<[datatype |-> "text"], value>>
      [] OTHER -> <<value>>

OpMakeRecord(e, pg, instruction) ==
    \* assert instruction.p4
    IF instruction.p4 \in {None, AffV(<<>>), IntV(0)}
    THEN Outcome(Raise(e, "AssertionError", instruction.p4), pg)
    ELSE IF ~(IsInt(instruction.p1) /\ IsInt(instruction.p2)) THEN Outcome(Raise(e, "TypeError", instruction.p1), pg)
    ELSE IF instruction.p2.int > 0 /\ ~IsAff(instruction.p4)
    THEN Outcome(Raise(e, "TypeError", instruction.p4), pg)
    ELSE LET n == instruction.p2.int
             \* the first field whose affinity character or register is missing
             bad == {i \in 0..(n - 1) : \/ i + 1 > Len(instruction.p4.aff)
                                        \/ instruction.p1.int + i \notin DOMAIN e.registers}
             first_bad == CHOOSE i \in bad : \A j \in bad : i <= j
         IN IF bad # {}
            THEN IF first_bad + 1 > Len(instruction.p4.aff)
                 THEN Outcome(Raise(e, "IndexError", IntV(first_bad)), pg)
                 ELSE Outcome(Raise(e, "KeyError", IntV(instruction.p1.int + first_bad)), pg)
            ELSE Outcome(SetRegister(e, IntV(instruction.p3),
                    Record([i \in 1..n |-> Field(instruction.p4.aff[i],
                                                 e.registers[instruction.p1.int + i - 1])])), pg)

\* a ResultRow that returns its row and ends the generator
OpResultRowReturns(e, pg, instruction) ==
    IF ~(IsInt(instruction.p1) /\ IsInt(instruction.p2)) THEN Outcome(Raise(e, "TypeError", instruction.p1), pg)
    ELSE Outcome([Advance(e) EXCEPT
                    !.rows = Append(@, [i \in 1..(instruction.p2.int - instruction.p1.int + 1) |->
                                          e.registers[instruction.p1.int + i - 1]]),
                    !.status = "done"], pg)

\* a ResultRow that reads p2 as a count of registers, as SQLite does
OpResultRowCount(e, pg, instruction) ==
    IF ~(IsInt(instruction.p1) /\ IsInt(instruction.p2)) THEN Outcome(Raise(e, "TypeError", instruction.p1), pg)
    ELSE Outcome([Advance(e) EXCEPT
                    !.rows = Append(@, [i \in 1..instruction.p2.int |->
                                          e.registers[instruction.p1.int + i - 1]]),
                    !.status = "yielded"], pg)

OpResultRow(e, pg, instruction) ==
    IF ~(IsInt(instruction.p1) /\ IsInt(instruction.p2)) THEN Outcome(Raise(e, "TypeError", instruction.p1), pg)
    ELSE LET lo == instruction.p1.int
             hi == instruction.p2.int
             unset == {i \in lo..hi : i \notin DOMAIN e.registers}
         IN IF unset # {}
            THEN Outcome(Raise(e, "KeyError", IntV(CHOOSE i \in unset : \A j \in unset : i <= j)), pg)
            ELSE LET values == [i \in 1..(hi - lo + 1) |-> e.registers[lo + i - 1]]
                 \* cursor += 1, then yield values
                 IN Outcome([Advance(e) EXCEPT !.rows = Append(@, values), !.status = "yielded"], pg)

\* an Insert that keys the record with the value of register p3, as the
\* compiler's choice of p3 supposes
OpInsertKeyed(e, pg, instruction) ==
    IF ~HasRegister(e, instruction.p2) THEN Outcome(Raise(e, "KeyError", instruction.p2), pg)
    ELSE IF ~HasCursor(e, instruction.p1) THEN Outcome(Raise(e, "KeyError", instruction.p1), pg)
    ELSE IF ~HasRegister(e, IntV(instruction.p3)) THEN Outcome(Raise(e, "KeyError", IntV(instruction.p3)), pg)
    ELSE IF ~IsRecord(e.registers[instruction.p2.int])
    THEN Outcome(Raise(e, "AttributeError", e.registers[instruction.p2.int]), pg)
    ELSE Outcome(
           Advance([e EXCEPT !.btrees[instruction.p1.int].tree =
                       BTreeInsert(@, [e.registers[instruction.p2.int] EXCEPT
                                         !.row_id = e.registers[instruction.p3]]).tree]),
           [pg EXCEPT !.trees[e.btrees[instruction.p1.int].root] =
               BTreeInsert(e.btrees[instruction.p1.int].tree,
                           [e.registers[instruction.p2.int] EXCEPT
                              !.row_id = e.registers[instruction.p3]]).tree])

OpInsert(e, pg, instruction) ==
    IF ~HasRegister(e, instruction.p2) THEN Outcome(Raise(e, "KeyError", instruction.p2), pg)
    ELSE IF ~HasCursor(e, instruction.p1) THEN Outcome(Raise(e, "KeyError", instruction.p1), pg)
    ELSE LET record == e.registers[instruction.p2.int]
             bt == e.btrees[instruction.p1.int]
         IN IF ~IsRecord(record) THEN Outcome(Raise(e, "AttributeError", record), pg)
            ELSE LET ins == BTreeInsert(bt.tree, record)
                     written == [e EXCEPT !.btrees[instruction.p1.int].tree = ins.tree]
                     r3 == [written EXCEPT !.registers = DictSet(@, instruction.p3, ins.record.row_id)]
                     r2 == [r3 EXCEPT !.registers = DictSet(@, instruction.p2.int, ins.record)]
                 IN Outcome(Advance(r2), [pg EXCEPT !.trees[bt.root] = ins.tree])

\* a Next that decides the jump on the row it leaves
OpNextPeeksFirst(e, pg, instruction) ==
    IF ~HasCursor(e, instruction.p1) THEN Outcome(Raise(e, "KeyError", instruction.p1), pg)
    ELSE LET v == peek(e.btrees[instruction.p1.int])
             advanced == next(v.it).it
             moved == [e EXCEPT !.btrees[instruction.p1.int] = advanced]
         IN IF ~IsNone(v.value) THEN Outcome(Jump(moved, instruction.p2), pg)
            ELSE Outcome(Advance(moved), pg)

OpNext(e, pg, instruction) ==
    IF ~HasCursor(e, instruction.p1) THEN Outcome(Raise(e, "KeyError", instruction.p1), pg)
    ELSE LET advanced == next(e.btrees[instruction.p1.int]).it
             v == peek(advanced)
             moved == [e EXCEPT !.btrees[instruction.p1.int] = v.it]
         IN IF ~IsNone(v.value) THEN Outcome(Jump(moved, instruction.p2), pg)
            ELSE Outcome(Advance(moved), pg)

\* a Halt without its break
OpHaltContinues(e, pg, instruction) ==
    IF instruction.p1 # IntV(0)
    THEN Outcome(Raise(e, "Exception", instruction.p4), pg)
    ELSE Outcome(Advance(e), pg)

OpHalt(e, pg, instruction) ==
    IF instruction.p1 # IntV(0)
    THEN Outcome(Raise(e, "Exception", instruction.p4), pg)
    \* break, then return: the generator is exhausted
    ELSE Outcome([e EXCEPT !.status = "done"], pg)

-----------------------------------------------------------------------------
(* VM.execute: the fetch-decode-execute loop *)

\* one iteration of `while True` of a running generator.  The chain of
\* `if instruction.opcode == ...` tests runs on the instruction fetched at
\* the top of the iteration, so at most one handler runs; an opcode with no
\* handler leaves cursor, registers and btrees as they were and the loop
\* goes round again.
Exec(e, pg) ==
    IF e.pc \notin 0..(Len(e.prog) - 1)
    THEN Outcome(Raise(e, "IndexError", IntV(e.pc)), pg)
    ELSE LET instruction == e.prog[e.pc + 1]
         IN CASE instruction.opcode = "Init" -> OpInit(e, pg, instruction)
              [] instruction.opcode = "Transaction" -> OpTransaction(e, pg, instruction)
              [] instruction.opcode = "CreateBtree" -> OpCreateBtree(e, pg, instruction)
              [] instruction.opcode = "Goto" -> OpGoto(e, pg, instruction)
              [] instruction.opcode = "SCopy" -> OpSCopy(e, pg, instruction)
              [] instruction.opcode = "OpenWrite" -> OpOpen(e, pg, instruction)
              [] instruction.opcode = "OpenRead" -> OpOpen(e, pg, instruction)
              [] instruction.opcode = "SoftNull" -> OpSoftNull(e, pg, instruction)
              [] instruction.opcode = "NotNull" -> OpNotNull(e, pg, instruction)
              [] instruction.opcode = "IsNull" -> OpIsNull(e, pg, instruction)
              [] instruction.opcode = "String" -> OpString(e, pg, instruction)
              [] instruction.opcode = "Integer" -> OpInteger(e, pg, instruction)
              [] instruction.opcode = "NewRowid" -> OpNewRowid(e, pg, instruction)
              [] instruction.opcode = "SeekRowid" -> OpSeekRowid(e, pg, instruction)
              [] instruction.opcode = "MustBeInt" -> OpMustBeInt(e, pg, instruction)
              [] instruction.opcode = "Noop" -> OpNoop(e, pg, instruction)
              [] instruction.opcode = "NotExists" -> OpNotExists(e, pg, instruction)
              [] instruction.opcode = "Rewind" -> OpRewind(e, pg, instruction)
              [] instruction.opcode = "Rowid" -> OpRowid(e, pg, instruction)
              [] instruction.opcode = "Column" -> OpColumn(e, pg, instruction)
              [] instruction.opcode = "MakeRecord" -> OpMakeRecord(e, pg, instruction)
              [] instruction.opcode = "ResultRow" -> OpResultRow(e, pg, instruction)
              [] instruction.opcode = "Insert" -> OpInsert(e, pg, instruction)
              [] instruction.opcode = "Next" -> OpNext(e, pg, instruction)
              [] instruction.opcode = "Halt" -> OpHalt(e, pg, instruction)
              [] OTHER -> Outcome(e, pg)

\* program.instructions[cursor] can be fetched
Fetchable(e) == e.pc \in 0..(Len(e.prog) - 1)

\* the opcodes whose handler may assign instruction.p2 to cursor
JumpOpcodes ==
    {"Init", "Goto", "IsNull", "NotNull", "MustBeInt", "Rewind", "Next", "SeekRowid", "NotExists"}

\* next(generator): the generator starts or resumes after its yield
Resume(e) == [e EXCEPT !.status = "running"]

\* the loop iteration of a running generator changes nothing, so every
\* later iteration does the same: the loop never ends
Spins(e, pg) == e.status = "running" /\ Exec(e, pg) = Outcome(e, pg)

-----------------------------------------------------------------------------
(* The database files the model starts from *)

\* a stored row: a Record with its key
Row(row_id, values) == [record |-> values, row_id |-> IntV(row_id)]

Integer(v) == <<[datatype |-> "integer"], IntV(v)>>
Text(v) == <<[datatype |-> "text"], StrV(v)>>

\* the catalog row a CREATE TABLE writes: the record of registers 1..5
CatalogRow(row_id, table_name, root_page_number, sql_text) ==
    Row(row_id, <<Text("table"), Text(table_name), Text(table_name),
                  Integer(root_page_number), Text(sql_text)>>)

EmptyDatabase == [len |-> 0, trees |-> <<>>]

\* page 0: the catalog, naming t (root page 1) and w (root page 2); t and w
\* have no row
DatabaseNoRows ==
    [len |-> 3,
     trees |-> [n \in 0..2 |->
                  IF n = 0 THEN <<CatalogRow(1, "t", 1, CreateTText), CatalogRow(2, "w", 2, "w")>>
                  ELSE <<>>]]

\* the same with two rows in t
DatabaseTwoRows ==
    [DatabaseNoRows EXCEPT !.trees[1] = <<Row(1, <<Integer(1), Text("x")>>),
                                          Row(2, <<Integer(2), Text("y")>>)>>]

Databases == {EmptyDatabase, DatabaseNoRows, DatabaseTwoRows}

\* what the tests make get_schema return: rows of
\* (id, type, name, table_name, sql_text, root_page_number)
MockSchemaT == <<<<IntV(1), StrV("table"), StrV("t"), StrV("t"), StrV(CreateTText), IntV(1)>>>>
MockSchemas == {<<>>, MockSchemaT}

-----------------------------------------------------------------------------
(* Programs written by hand, as a caller of VM.execute builds them *)

\* the program test_schema_select expects of `select * from schema`
SchemaSelectExpected ==
    <<Instruction(1, "Init", IntV(0), IntV(10), 0, None),
      Instruction(2, "OpenRead", IntV(0), IntV(0), 0, IntV(2)),
      Instruction(3, "Rewind", IntV(0), IntV(7), 0, None),
      Instruction(4, "Rowid", IntV(0), IntV(0), 0, None),
      Instruction(5, "Column", IntV(0), IntV(1), 1, None),
      Instruction(6, "Column", IntV(0), IntV(2), 2, None),
      Instruction(7, "Column", IntV(0), IntV(3), 3, None),
      Instruction(8, "ResultRow", IntV(0), IntV(3), 0, None),
      [Instruction(9, "Next", IntV(0), IntV(3), 0, None) EXCEPT !.p5 = 1],
      Instruction(10, "Halt", IntV(0), IntV(0), 0, None),
      Instruction(11, "Transaction", IntV(0), IntV(0), 21, None),
      Instruction(12, "Goto", IntV(0), IntV(1), 0, None)>>

\* a scan of the tree at page 1 that ends in Halt when the tree is empty
ScanT ==
    <<Instruction(1, "OpenRead", IntV(0), IntV(1), 0, None),
      Instruction(2, "Rewind", IntV(0), RefV(7), 0, None),
      Instruction(3, "Rowid", IntV(0), IntV(1), 0, None),
      Instruction(4, "Column", IntV(0), IntV(0), 2, None),
      Instruction(5, "ResultRow", IntV(1), IntV(2), 0, None),
      Instruction(6, "Next", IntV(0), IntV(2), 0, None),
      Instruction(7, "Halt", IntV(0), IntV(0), 0, None)>>

\* an insert of (1, 'x') into the tree at page 1, with the affinity string
\* MakeRecord asks for
InsertT ==
    <<Instruction(1, "OpenWrite", IntV(0), IntV(1), 3, None),
      Instruction(2, "Integer", IntV(1), IntV(1), 0, None),
      Instruction(3, "String", IntV(1), IntV(2), 0, StrV("x")),
      Instruction(4, "MakeRecord", IntV(1), IntV(2), 3, AffV(<<"D", "B">>)),
      Instruction(5, "Insert", IntV(0), IntV(3), 1, None),
      Instruction(6, "ResultRow", IntV(1), IntV(1), 0, None),
      Instruction(7, "Halt", IntV(0), IntV(0), 0, None)>>

\* a new tree, then an error halt
CreateThenFail ==
    <<Instruction(1, "CreateBtree", IntV(0), IntV(0), 0, None),
      Instruction(2, "ResultRow", IntV(0), IntV(0), 0, None),
      Instruction(3, "Halt", IntV(1), IntV(0), 0, StrV("constraint failed")),
      Instruction(4, "ResultRow", IntV(0), IntV(0), 0, None)>>

\* references by p1 and by p2, each to an instruction no other equals
RefsDistinct ==
    <<Instruction(1, "Init", IntV(0), RefV(3), 0, None),
      Instruction(2, "Noop", IntV(0), IntV(0), 0, None),
      Instruction(3, "Integer", RefV(4), IntV(0), 0, None),
      Instruction(4, "ResultRow", IntV(0), IntV(0), 0, None),
      Instruction(5, "Halt", IntV(0), IntV(0), 0, None)>>

\* a reference to the second of two equal Noop instructions
RefsEqual ==
    <<Instruction(1, "Noop", IntV(0), IntV(0), 0, None),
      Instruction(2, "Goto", IntV(0), RefV(4), 0, None),
      Instruction(3, "Integer", IntV(1), IntV(0), 0, None),
      Instruction(4, "Noop", IntV(0), IntV(0), 0, None),
      Instruction(5, "Halt", IntV(0), IntV(0), 0, None)>>

\* a cursor on page 1 that is advanced by Next and then rewound
RewindAfterNext ==
    <<Instruction(1, "OpenRead", IntV(0), IntV(1), 0, None),
      Instruction(2, "Rewind", IntV(0), IntV(6), 0, None),
      Instruction(3, "Next", IntV(0), IntV(3), 0, None),
      Instruction(4, "Rewind", IntV(0), IntV(6), 0, None),
      Instruction(5, "Rowid", IntV(0), IntV(1), 0, None),
      Instruction(6, "ResultRow", IntV(1), IntV(1), 0, None),
      Instruction(7, "Halt", IntV(0), IntV(0), 0, None)>>

\* a write cursor and a read cursor on page 1, an Insert through the write
\* cursor, then a second read cursor on page 1; the rows the two read
\* cursors stand on are yielded
TwoCursors ==
    <<Instruction(1, "OpenWrite", IntV(0), IntV(1), 0, None),
      Instruction(2, "OpenRead", IntV(1), IntV(1), 0, None),
      Instruction(3, "Integer", IntV(1), IntV(1), 0, None),
      Instruction(4, "MakeRecord", IntV(1), IntV(1), 2, AffV(<<"D">>)),
      Instruction(5, "Insert", IntV(0), IntV(2), 3, None),
      Instruction(6, "OpenRead", IntV(2), IntV(1), 0, None),
      Instruction(7, "Next", IntV(2), IntV(7), 0, None),
      Instruction(8, "Rewind", IntV(1), IntV(10), 0, None),
      Instruction(9, "Rewind", IntV(2), IntV(10), 0, None),
      Instruction(10, "Noop", IntV(0), IntV(0), 0, None),
      Instruction(11, "Halt", IntV(0), IntV(0), 0, None)>>

\* MustBeInt on the text '1', on the text 'x' with a jump target, and on a
\* register that holds None
CoerceInts ==
    <<Instruction(1, "String", IntV(1), IntV(0), 0, StrV("1")),
      Instruction(2, "MustBeInt", IntV(0), IntV(0), 0, None),
      Instruction(3, "String", IntV(1), IntV(1), 0, StrV("x")),
      Instruction(4, "MustBeInt", IntV(1), IntV(5), 0, None),
      Instruction(5, "Halt", IntV(1), IntV(0), 0, StrV("no jump")),
      Instruction(6, "String", IntV(0), IntV(2), 0, None),
      Instruction(7, "MustBeInt", IntV(2), IntV(8), 0, None),
      Instruction(8, "Halt", IntV(0), IntV(0), 0, None),
      Instruction(9, "Halt", IntV(0), IntV(0), 0, None)>>

\* MustBeInt with p2 = 0 on the text 'x'
CoerceOrFail ==
    <<Instruction(1, "String", IntV(1), IntV(0), 0, StrV("x")),
      Instruction(2, "MustBeInt", IntV(0), IntV(0), 0, None),
      Instruction(3, "Halt", IntV(0), IntV(0), 0, None)>>

\* a program whose last instruction is no Halt
NoHalt ==
    <<Instruction(1, "Integer", IntV(1), IntV(0), 0, None),
      Instruction(2, "ResultRow", IntV(0), IntV(0), 0, None),
      Instruction(3, "Noop", IntV(0), IntV(0), 0, None)>>

\* a cursor on page 1 that is opened and closed
CloseT ==
    <<Instruction(1, "OpenRead", IntV(0), IntV(1), 0, None),
      Instruction(2, "Integer", IntV(1), IntV(0), 0, None),
      Instruction(3, "Close", IntV(0), IntV(0), 0, None),
      Instruction(4, "Halt", IntV(0), IntV(0), 0, None)>>

\* NotExists on the tree at page 1 for the row id 1
ExistsT ==
    <<Instruction(1, "OpenRead", IntV(0), IntV(1), 0, None),
      Instruction(2, "Integer", IntV(1), IntV(0), 0, None),
      Instruction(3, "NotExists", IntV(0), IntV(4), 0, None),
      Instruction(4, "Noop", IntV(0), IntV(0), 0, None),
      Instruction(5, "Halt", IntV(0), IntV(0), 0, None)>>

\* a row is yielded, and an insert into the tree at page 1 follows it
YieldThenInsert ==
    <<Instruction(1, "Integer", IntV(1), IntV(1), 0, None),
      Instruction(2, "ResultRow", IntV(1), IntV(1), 0, None),
      Instruction(3, "OpenWrite", IntV(0), IntV(1), 0, None),
      Instruction(4, "MakeRecord", IntV(1), IntV(1), 2, AffV(<<"D">>)),
      Instruction(5, "Insert", IntV(0), IntV(2), 3, None),
      Instruction(6, "Halt", IntV(0), IntV(0), 0, None)>>

HandPrograms ==
    [SchemaSelectExpected |-> SchemaSelectExpected, ScanT |-> ScanT, InsertT |-> InsertT,
     CreateThenFail |-> CreateThenFail, RefsDistinct |-> RefsDistinct, RefsEqual |-> RefsEqual,
     RewindAfterNext |-> RewindAfterNext, TwoCursors |-> TwoCursors,
     CoerceInts |-> CoerceInts, CoerceOrFail |-> CoerceOrFail, NoHalt |-> NoHalt,
     CloseT |-> CloseT, ExistsT |-> ExistsT, YieldThenInsert |-> YieldThenInsert]

-----------------------------------------------------------------------------
(* The Compiler object *)

NoSchema == [status |-> "ok", rows |-> <<>>]

\* state: "none" (no Compiler), "constructing" (__init__ waits for the
\* bootstrap program to end), "ready", "compiling" (compile waits for the
\* program of get_schema to end; pending is its sql_text)
NoCompiler ==
    [state |-> "none", vm |-> "none", get_schema |-> [mocked |-> FALSE, rows |-> <<>>],
     bootstrap |-> "none", vm_execute_called |-> FALSE, pending |-> ""]

\* an init_schema_table without its early return
SchemaTableNeverExists(pg) == FALSE

\* the test of init_schema_table: the file already has pages
SchemaTableExists(pg) == pg.len > 0

\* Compiler.get_schema when it needs no run of vmV1.VM: a mocked get_schema
\* returns its rows; a Mock vm's execute returns [], whatever the program
get_schema(c) ==
    IF c.get_schema.mocked THEN [status |-> "ok", rows |-> c.get_schema.rows]
    ELSE [status |-> "ok", rows |-> <<>>]

\* str(statement._from.value) of a select, str(statement.into.value) of an
\* insert
TableOf(statement) ==
    IF statement.stmt = "select" THEN statement.from ELSE statement.into

\* does get_schema's own call of self.vm.execute happen in this compile
CallsGetSchema(sql_text, c) ==
    LET stmts == prepare(sql_text)
    IN /\ Len(stmts) = 1
       /\ stmts[1].stmt \in {"select", "insert"}
       /\ ~c.get_schema.mocked
       /\ (IF stmts[1].stmt = "select" THEN stmts[1].from ELSE stmts[1].into) # SCHEMA_TABLE_NAME

NoProgram ==
    [origin |-> "", status |-> "none", instructions |-> <<>>, unresolved |-> <<>>, schema |-> NoSchema]

NoHistory ==
    [sql_text |-> "", schema |-> NoSchema, instructions |-> <<>>, between |-> FALSE, again |-> FALSE]

-----------------------------------------------------------------------------
(* btree.BPlusTree (toysql/btree.py), on the pages of toysql.page, which   *)
(* is not among the sources: a page is [page_type, cells] and its sizes    *)
(* are those of toysql/constants.py.  Row ids are plain integers here.     *)
(* Line 57 of btree.py, `if cell[] > cell.row_id:`, is not an expression   *)
(* of the language: as shipped the module does not compile and importing   *)
(* it raises SyntaxError.  The statements of add, search, _split and       *)
(* _search are followed as written, line 57 being the failure of the       *)
(* descent into an internal page.                                          *)

PAGE_SIZE == 4096
LEAF_NODE_HEADER_SIZE == 6 + 4
LEAF_NODE_CELL_SIZE == 4 + (4 + 32 + 255)

\* LeafPageCell(values): the first value is the row id
LeafPageCell(values) == [row_id |-> values[1], values |-> values]

\* len(page) and len(cell)
PageLen(page) == LEAF_NODE_HEADER_SIZE + Len(page.cells) * LEAF_NODE_CELL_SIZE
CellLen(cell) == LEAF_NODE_CELL_SIZE

\* Page.add_cell: the cells of a page stay in ascending key order
add_cell(page, cell) ==
    [page EXCEPT !.cells = SelectSeq(@, LAMBDA c : c.row_id < cell.row_id)
                           \o <<cell>>
                           \o SelectSeq(@, LAMBDA c : c.row_id > cell.row_id)]

\* Page.find_cell: the cell with that key, or None
find_cell(page, key) ==
    IF \E i \in 1..Len(page.cells) : page.cells[i].row_id = key
    THEN page.cells[CHOOSE i \in 1..Len(page.cells) : page.cells[i].row_id = key]
    ELSE None

\* BPlusTree(page_number, pager) on a new leaf page
BPlusTree == [root |-> [page_type |-> "leaf", cells |-> <<>>], order |-> 4]

\* BPlusTree._search
_search(key, page) ==
    IF page.page_type = "leaf" THEN [status |-> "ok", page |-> page]
    ELSE [status |-> "SyntaxError", page |-> page]

\* BPlusTree._split: `return []`
_split(page) == <<>>

\* the end of BPlusTree.add: self.root.add_cell(cell)
AddToRoot(tree, cell) ==
    [status |-> "ok", tree |-> [tree EXCEPT !.root = add_cell(@, cell)]]

\* BPlusTree.add from the page _search found; [left, right] = [] raises
\* ValueError
AddCell(tree, cell, found) ==
    IF found.status # "ok" THEN [status |-> found.status, tree |-> tree]
    ELSE IF PAGE_SIZE - PageLen(found.page) < CellLen(cell) /\ Len(_split(found.page)) # 2
    THEN [status |-> "ValueError", tree |-> tree]
    ELSE AddToRoot(tree, cell)

\* BPlusTree.add
add(tree, values) ==
    AddCell(tree, LeafPageCell(values), _search(LeafPageCell(values).row_id, tree.root))

\* BPlusTree.search from the page _search found; a Page has a length, so
\* `if page:` asks whether that is not 0
SearchCell(key, found) ==
    IF found.status # "ok" THEN [status |-> found.status, cell |-> None]
    ELSE IF PageLen(found.page) # 0 /\ find_cell(found.page, key) # None
    THEN [status |-> "ok", cell |-> find_cell(found.page, key)]
    ELSE [status |-> "NotFoundException", cell |-> None]

\* BPlusTree.search
search(tree, key) == SearchCell(key, _search(key, tree.root))

\* a new tree, of which no method has been called
NoCalls ==
    [tree |-> BPlusTree, added |-> {},
     result |-> [op |-> "", key |-> 0, status |-> "", cell |-> None]]

-----------------------------------------------------------------------------
(* Actions *)

\* no PeekIterator was made
NoIterator == [it |-> None, returned |-> <<>>, result |-> None, calls |-> 0]

\* toysql.constants was not imported
NotImported == [imported |-> FALSE]

\* the caller holds no generator, and no constructor or compile call of its
\* is waiting for the VM
CallerFree == ex.status = "none" /\ compiler.state \in {"none", "ready"}

\* Compiler(pager, vm): __init__ with init_schema_table.  With vmV1.VM the
\* list comprehension over vm.execute(program) pulls the generator to its
\* end (Pull and Step) before __init__ returns.
Construct(vm) ==
    /\ UNCHANGED <<suspended, bptree, iterator, constants>>
    /\ CallerFree
    /\ compiler.state = "none"
    \* a caller that builds its programs by hand makes no Compiler
    /\ program = NoProgram
    /\ IF SchemaTableExists(pager)
       THEN /\ compiler' = [NoCompiler EXCEPT !.state = "ready", !.vm = vm, !.bootstrap = "skipped"]
            /\ UNCHANGED <<ex, Memory_address>>
       ELSE    /\ compiler' = [NoCompiler EXCEPT
                                 !.state = IF vm = "mock" THEN "ready" ELSE "constructing",
                                 !.vm = vm,
                                 !.bootstrap = IF vm = "mock" THEN "ran" ELSE "running",
                                 !.vm_execute_called = TRUE]
               /\ ex' = IF vm = "mock" THEN ex
                        ELSE NewExecution(SCHEMA_TABLE_SQL_TEXT,
                                 compile(SCHEMA_TABLE_SQL_TEXT, NoSchema, Memory_address).instructions)
               /\ Memory_address' = MemoryClassAddressAfter(Memory_address, 8)
    /\ UNCHANGED <<pager, program, history>>

\* compiler.get_schema = Mock(return_value=rows), as the tests' setUp does
MockGetSchema(rows) ==
    /\ UNCHANGED <<suspended, bptree, iterator, constants>>
    /\ CallerFree
    /\ compiler.state = "ready" /\ compiler.vm = "mock"
    /\ compiler.get_schema # [mocked |-> TRUE, rows |-> rows]
    /\ compiler' = [compiler EXCEPT !.get_schema = [mocked |-> TRUE, rows |-> rows]]
    /\ UNCHANGED <<pager, Memory_address, program, history, ex>>

\* what a compile(sql_text) that ended as `outcome` leaves behind
Return(sql_text, schema, remember, outcome) ==
    /\ program' = [origin |-> sql_text, status |-> outcome.status,
                   instructions |-> outcome.instructions,
                   unresolved |-> outcome.unresolved, schema |-> schema]
    /\ Memory_address' =
         MemoryClassAddressAfter(Memory_address,
                                 IF Len(prepare(sql_text)) = 1
                                 THEN AllocCalls(prepare(sql_text)[1], outcome) ELSE 0)
    /\ history' =
         IF remember
         THEN [sql_text |-> sql_text, schema |-> schema,
               instructions |-> outcome.instructions, between |-> FALSE, again |-> FALSE]
         ELSE IF history.sql_text = sql_text /\ history.schema = schema
         THEN [history EXCEPT !.again = TRUE]
         ELSE [history EXCEPT !.between = (history.sql_text # "")]

\* what compile(sql_text) leaves behind once get_schema() gave `schema`
Returned(sql_text, schema, remember) ==
    Return(sql_text, schema, remember, compile(sql_text, schema, Memory_address))

\* compiler.compile(sql_text).  When get_schema has to run its SELECT on
\* vmV1.VM, compile waits for that program to end (Pull and Step).
Compile(sql_text, remember) ==
    /\ UNCHANGED <<suspended, bptree, iterator, constants>>
    /\ CallerFree
    /\ compiler.state = "ready"
    \* one earlier compile is remembered
    /\ remember => history = NoHistory
    /\ IF CallsGetSchema(sql_text, compiler) /\ compiler.vm = "vmV1"
       THEN /\ compiler' = [compiler EXCEPT !.state = "compiling", !.pending = sql_text,
                                            !.vm_execute_called = TRUE]
            /\ ex' = NewExecution(SelectSchemaText,
                                  compile(SelectSchemaText, NoSchema, Memory_address).instructions)
            /\ UNCHANGED <<program, Memory_address, history>>
       ELSE /\ Returned(sql_text, get_schema(compiler), remember)
            /\ compiler' = [compiler EXCEPT
                              !.vm_execute_called = @ \/ CallsGetSchema(sql_text, compiler)]
            /\ UNCHANGED ex
    /\ UNCHANGED pager

\* Program(instructions) built by hand, then resolve_refs(), by a caller
\* that drives the VM without a Compiler
Load(name) ==
    /\ UNCHANGED <<suspended, bptree, iterator, constants>>
    /\ CallerFree
    /\ compiler.state = "none"
    /\ program' = [origin |-> name, status |-> "ok",
                   instructions |-> resolve_refs(HandPrograms[name]),
                   unresolved |-> HandPrograms[name], schema |-> NoSchema]
    /\ UNCHANGED <<pager, compiler, Memory_address, history, ex>>

\* VM(pager).execute(program): calling a generator function runs none of it
Execute ==
    /\ UNCHANGED <<suspended, bptree, iterator, constants>>
    /\ CallerFree
    /\ program.status = "ok"
    /\ pager.len <= MaxPages
    /\ \A n \in DOMAIN pager.trees : Len(pager.trees[n]) <= MaxRows
    /\ ex' = NewExecution(program.origin, program.instructions)
    /\ UNCHANGED <<pager, compiler, Memory_address, program, history>>

\* next(generator) by the caller
Pull ==
    /\ UNCHANGED <<suspended, bptree, iterator, constants>>
    /\ ex.status \in {"created", "yielded"}
    /\ ex' = Resume(ex)
    /\ UNCHANGED <<pager, compiler, Memory_address, program, history>>

\* what the end of the generator means to the call that was pulling it
\* (the list comprehension of init_schema_table or of get_schema)
Waiter(e) ==
    CASE compiler.state = "constructing" /\ e.status = "done" ->
            /\ compiler' = [compiler EXCEPT !.state = "ready", !.bootstrap = "ran"]
            /\ UNCHANGED <<program, Memory_address, history>>
      [] compiler.state = "constructing" /\ e.status = "error" ->
            \* __init__ raised: there is no Compiler object
            /\ compiler' = [NoCompiler EXCEPT !.bootstrap = e.exc.type]
            /\ UNCHANGED <<program, Memory_address, history>>
      [] compiler.state = "compiling" /\ e.status \in {"done", "error"} ->
            /\ compiler' = [compiler EXCEPT !.state = "ready", !.pending = ""]
            /\ Returned(compiler.pending,
                        [status |-> IF e.status = "done" THEN "ok" ELSE e.exc.type,
                         rows |-> IF e.status = "done" THEN e.rows ELSE <<>>], FALSE)
      [] OTHER -> UNCHANGED <<compiler, program, Memory_address, history>>

\* one iteration of the loop of VM.execute
Step ==
    /\ UNCHANGED <<suspended, bptree, iterator, constants>>
    /\ ex.status = "running"
    /\ \E n \in {Exec(ex, pager)} : ex' = n.ex /\ pager' = n.pager /\ Waiter(n.ex)

\* the caller lets go of a generator it is not running
Drop ==
    /\ UNCHANGED <<suspended, bptree, iterator, constants>>
    /\ compiler.state \in {"none", "ready"}
    /\ ex.status \in {"created", "yielded", "done", "error"}
    /\ ex' = NoExecution
    /\ UNCHANGED <<pager, compiler, Memory_address, program, history>>

\* the caller turns from the generator it was pulling to the other one it
\* holds (or to none); a generator can be left only where it is suspended
Switch ==
    /\ compiler.state = "none"
    /\ ex.status \in {"none", "created", "yielded"}
    /\ suspended.status \in {"none", "created", "yielded"}
    /\ ex # suspended
    /\ ex.origin \in Interleaved \cup {""} /\ suspended.origin \in Interleaved \cup {""}
    /\ ex' = suspended
    /\ suspended' = ex
    /\ UNCHANGED <<pager, compiler, Memory_address, program, history, bptree, iterator, constants>>

Init ==
    /\ pager \in Databases
    /\ compiler = NoCompiler
    /\ Memory_address = 0
    /\ program = NoProgram
    /\ history = NoHistory
    /\ ex = NoExecution
    /\ suspended = NoExecution
    /\ bptree = NoCalls
    /\ iterator = NoIterator
    /\ constants = NotImported

Next ==
    \/ \E vm \in {"mock", "vmV1"} : Construct(vm)
    \/ \E rows \in MockSchemas : MockGetSchema(rows)
    \/ \E sql_text \in SqlTexts, remember \in BOOLEAN : Compile(sql_text, remember)
    \/ \E name \in DOMAIN HandPrograms : Load(name)
    \/ Execute
    \/ Pull
    \/ Step
    \/ Drop
    \/ Switch

Spec == Init /\ [][Next]_vars

-----------------------------------------------------------------------------
(* A caller of btree.BPlusTree *)

\* tree.add(values) with a row id that was not handed to add before
Add(values) ==
    /\ values[1] \notin bptree.added
    /\ \E r \in {add(bptree.tree, values)} :
          bptree' = [tree |-> r.tree, added |-> bptree.added \cup {values[1]},
                     result |-> [op |-> "add", key |-> values[1], status |-> r.status,
                                 cell |-> None]]
    /\ UNCHANGED <<pager, compiler, Memory_address, program, history, ex, suspended,
                   iterator, constants>>

\* tree.search(key)
Search(key) ==
    /\ \E r \in {search(bptree.tree, key)} :
          bptree' = [bptree EXCEPT !.result = [op |-> "search", key |-> key,
                                               status |-> r.status, cell |-> r.cell]]
    /\ UNCHANGED <<pager, compiler, Memory_address, program, history, ex, suspended,
                   iterator, constants>>

BPlusTreeInit ==
    /\ pager = EmptyDatabase
    /\ compiler = NoCompiler
    /\ Memory_address = 0
    /\ program = NoProgram
    /\ history = NoHistory
    /\ ex = NoExecution
    /\ suspended = NoExecution
    /\ bptree = NoCalls
    /\ iterator = NoIterator
    /\ constants = NotImported

BPlusTreeNext ==
    \/ \E k \in 1..MaxKey : Add(<<k>>)
    \/ \E k \in 1..MaxKey : Search(k)

BPlusTreeSpec == BPlusTreeInit /\ [][BPlusTreeNext]_vars

-----------------------------------------------------------------------------
(* PeekIterator driven by a caller of its own *)

\* the rows of a tree whose row ids are the members of ids, in key order
RECURSIVE ScanRows(_, _)
ScanRows(ids, from) ==
    IF from > MaxScan THEN <<>>
    ELSE IF from \in ids THEN <<Row(from, <<Integer(from)>>)>> \o ScanRows(ids, from + 1)
    ELSE ScanRows(ids, from + 1)

\* database files of one page, the tree of page 0 holding such rows
ScanDatabases ==
    {[len |-> 1, trees |-> [n \in 0..0 |-> ScanRows(ids, 1)]] : ids \in SUBSET (1..MaxScan)}

\* next(it) by the caller, who keeps what it returned
CallNext ==
    /\ iterator.calls < MaxCalls
    /\ \E r \in {next(iterator.it)} :
          iterator' = [it |-> r.it, returned |-> Append(iterator.returned, r.value),
                       result |-> [op |-> "next", value |-> r.value],
                       calls |-> iterator.calls + 1]
    /\ UNCHANGED <<pager, compiler, Memory_address, program, history, ex, suspended,
                   bptree, constants>>

\* it.peek() by the caller
CallPeek ==
    /\ iterator.calls < MaxCalls
    /\ \E r \in {peek(iterator.it)} :
          iterator' = [iterator EXCEPT !.it = r.it,
                                       !.result = [op |-> "peek", value |-> r.value],
                                       !.calls = @ + 1]
    /\ UNCHANGED <<pager, compiler, Memory_address, program, history, ex, suspended,
                   bptree, constants>>

PeekInit ==
    /\ pager \in ScanDatabases
    /\ compiler = NoCompiler
    /\ Memory_address = 0
    /\ program = NoProgram
    /\ history = NoHistory
    /\ ex = NoExecution
    /\ suspended = NoExecution
    /\ bptree = NoCalls
    /\ iterator = [NoIterator EXCEPT !.it = PeekIterator(pager, 0)]
    /\ constants = NotImported

PeekNext == CallNext \/ CallPeek

PeekSpec == PeekInit /\ [][PeekNext]_vars

-----------------------------------------------------------------------------
(* constants.py: the leaf layout, evaluated at import *)

\* a / 2 for an int a: true division gives a float, an exact number of halves
TrueDivideByTwo(a) == [halves |-> a]

\* a - x for an int a and a float x
IntMinusFloat(a, x) == [halves |-> 2 * a - x.halves]

\* the float is the int n (7.0 == 7)
FloatEqualsInt(x, n) == x.halves = 2 * n

\* int(a / b) for positive ints
IntOfQuotient(a, b) == a \div b

\* the names of toysql.constants, for a PAGE_SIZE and a ROW_SIZE
Constants(page_size, row_size) ==
    [imported |-> TRUE,
     PAGE_SIZE |-> page_size,
     ROW_SIZE |-> row_size,
     LEAF_NODE_HEADER_SIZE |-> (1 + 1 + 4) + 4,
     LEAF_NODE_CELL_SIZE |-> 4 + row_size,
     LEAF_NODE_SPACE_FOR_CELLS |-> page_size - ((1 + 1 + 4) + 4),
     LEAF_NODE_MAX_CELLS |-> IntOfQuotient(page_size - ((1 + 1 + 4) + 4), 4 + row_size),
     LEAF_NODE_RIGHT_SPLIT_COUNT |->
         TrueDivideByTwo(IntOfQuotient(page_size - ((1 + 1 + 4) + 4), 4 + row_size) + 1),
     LEAF_NODE_LEFT_SPLIT_COUNT |->
         IntMinusFloat(IntOfQuotient(page_size - ((1 + 1 + 4) + 4), 4 + row_size) + 1,
                       TrueDivideByTwo(IntOfQuotient(page_size - ((1 + 1 + 4) + 4), 4 + row_size) + 1))]

\* ID_SIZE + USERNAME_SIZE + EMAIL_SIZE as configured
ROW_SIZE == 4 + 32 + 255

\* the page sizes and row sizes the module is evaluated for
PageSizes == {512 * k : k \in 1..MaxPageUnits}
RowSizes == {ROW_SIZE, 20, 33, 50, 64, 100, 128}

\* import toysql.constants, the two sizes set as given
Import(page_size, row_size) ==
    /\ constants = NotImported
    /\ constants' = Constants(page_size, row_size)
    /\ UNCHANGED <<pager, compiler, Memory_address, program, history, ex, suspended,
                   bptree, iterator>>

ConstantsInit ==
    /\ pager = EmptyDatabase
    /\ compiler = NoCompiler
    /\ Memory_address = 0
    /\ program = NoProgram
    /\ history = NoHistory
    /\ ex = NoExecution
    /\ suspended = NoExecution
    /\ bptree = NoCalls
    /\ iterator = NoIterator
    /\ constants = NotImported

ConstantsNext ==
    \E page_size \in PageSizes, row_size \in RowSizes : Import(page_size, row_size)

ConstantsSpec == ConstantsInit /\ [][ConstantsNext]_vars

-----------------------------------------------------------------------------
(* Properties *)

\* the programs compile() returns for the three statements of the
\* end-to-end scenario, table t being in the catalog
ScenarioTexts == {CreateTText, InsertTText, SelectTText}

\* C1: CREATE TABLE t, INSERT of one row and SELECT * FROM t, compiled and
\* run to their end in this order, give one row from the select and none
\* from the create or the insert.  For that, each compile has to return a
\* Program once t is in the catalog, each run has to end without an error,
\* the create and the insert have to yield nothing, and a finished select
\* over one stored row has to have yielded one row.
C1_EndToEnd ==
    /\ (/\ program.origin \in ScenarioTexts
        /\ program.origin # CreateTText => program.schema.rows = MockSchemaT)
       => program.status = "ok"
    /\ ex.origin \in ScenarioTexts => ~Spins(ex, pager) /\ ex.status # "error"
    /\ ex.origin \in {CreateTText, InsertTText} => ex.rows = <<>>
    /\ (ex.origin = SelectTText /\ ex.status = "done") => Len(ex.rows) = Len(pager.trees[1])

\* C2: a program compile() returned, run by VM.execute, never stays for
\* ever at one program counter: no iteration of the loop leaves the whole
\* state of the generator as it found it.
C2_CompiledProgramsTerminate ==
    ex.origin \in SqlTexts => ~Spins(ex, pager)

\* C3: a ResultRow at pc hands one row to the caller and suspends without
\* ending the program, with cursor = pc + 1 and registers and btrees as
\* they were; the next pull resumes there with the same registers and
\* btrees, and no row is added by the pull itself.
C3_ResultRowSuspends ==
    [][/\ (/\ ex.status = "running" /\ Fetchable(ex)
           /\ ex.prog[ex.pc + 1].opcode = "ResultRow"
           /\ ex'.status # "error")
          => /\ ex'.status = "yielded"
             /\ Len(ex'.rows) = Len(ex.rows) + 1
             /\ SubSeq(ex'.rows, 1, Len(ex.rows)) = ex.rows
             /\ ex'.pc = ex.pc + 1
             /\ ex'.registers = ex.registers
             /\ ex'.btrees = ex.btrees
       /\ (ex.status = "yielded" /\ ex'.status # "none")
          => IF ex' = suspended
             \* the caller turns to its other generator and keeps this one
             THEN suspended' = ex
             ELSE /\ ex'.status = "running"
                  /\ ex'.pc = ex.pc
                  /\ ex'.registers = ex.registers
                  /\ ex'.btrees = ex.btrees
                  /\ ex'.rows = ex.rows]_vars

\* a generator resumed after a ResultRow: it runs again, one past the
\* instruction that yielded
C3_Witness ==
    /\ ex.status = "running" /\ ex.rows # <<>>
    /\ ex.pc \in 1..Len(ex.prog)
    /\ ex.prog[ex.pc].opcode = "ResultRow"

C5_HaltIsTerminal ==
    [][/\ (ex.status = "running" /\ Fetchable(ex) /\ ex.prog[ex.pc + 1].opcode = "Halt")
          => IF ex.prog[ex.pc + 1].p1 = IntV(0)
             THEN ex'.status = "done" /\ ex'.rows = ex.rows /\ pager' = pager
             ELSE /\ ex'.status = "error"
                  /\ ex'.exc = [type |-> "Exception", arg |-> ex.prog[ex.pc + 1].p4]
                  /\ ex'.rows = ex.rows
       /\ ex.status \in {"done", "error"} => ex' \in {ex, NoExecution}]_vars

\* a Halt with p1 = 1 has raised with its p4
C5_Witness ==
    /\ ex.status = "error"
    /\ ex.exc = [type |-> "Exception", arg |-> StrV("constraint failed")]
    /\ ex.prog[ex.pc + 1].opcode = "Halt"

\* C6: every executed instruction other than Halt that raises nothing
\* either sets the program counter to its p2 (the jump opcodes only) or
\* increases it by exactly one.
C6_ProgramCounterMoves ==
    (/\ ex.status = "running" /\ Fetchable(ex)
     /\ ex.prog[ex.pc + 1].opcode # "Halt"
     /\ Exec(ex, pager).ex.status # "error")
    => \/ Exec(ex, pager).ex.pc = ex.pc + 1
       \/ /\ ex.prog[ex.pc + 1].opcode \in JumpOpcodes
          /\ Exec(ex, pager).ex.pc = ex.prog[ex.pc + 1].p2.int

\* C7: in a Program compile() returned no operand is an Instruction
\* reference, and each jump operand p2 is an integer index into the
\* program's instruction list.
C7_CompiledJumpsResolved ==
    (program.origin \in SqlTexts /\ program.status = "ok") =>
        \A k \in 1..Len(program.instructions) :
            /\ ~IsRef(program.instructions[k].p1)
            /\ ~IsRef(program.instructions[k].p2)
            /\ program.instructions[k].opcode \in JumpOpcodes
               => /\ IsInt(program.instructions[k].p2)
                  /\ program.instructions[k].p2.int \in 0..(Len(program.instructions) - 1)

\* a compiled select, whose Rewind was appended with a reference to close
C7_Witness ==
    /\ program.origin = SelectSchemaText /\ program.status = "ok"
    /\ \E k \in 1..Len(program.instructions) :
          /\ program.instructions[k].opcode = "Rewind"
          /\ IsRef(program.unresolved[k].p2)
          /\ program.instructions[k].p2 = IntV(10)

\* C8: resolve_refs rewrites each p1 or p2 that references an instruction
\* to the index of that very instruction in the list, for every list, also
\* when an equal instruction stands earlier in it.
C8_RefsResolveToReferenced ==
    program.status = "ok" =>
        \A k \in 1..Len(program.unresolved) :
            /\ IsRef(program.unresolved[k].p1)
               => \E j \in 1..Len(program.unresolved) :
                     /\ program.unresolved[j].oid = program.unresolved[k].p1.ref
                     /\ program.instructions[k].p1 = IntV(j - 1)
            /\ IsRef(program.unresolved[k].p2)
               => \E j \in 1..Len(program.unresolved) :
                     /\ program.unresolved[j].oid = program.unresolved[k].p2.ref
                     /\ program.instructions[k].p2 = IntV(j - 1)

\* C9: the same SQL text compiled again by the same Compiler, get_schema()
\* giving the same rows, returns the same instruction sequence, whatever
\* was compiled in between.
C9_CompileIsDeterministic ==
    (/\ history.sql_text # ""
     /\ program.origin = history.sql_text
     /\ program.schema = history.schema)
    => program.instructions = history.instructions

\* a select was compiled, something else after it, and the select again
C9_Witness ==
    /\ history.again /\ history.between
    /\ history.sql_text = SelectTText
    /\ program.origin = SelectTText /\ program.status = "ok"

\* C10: Compiler(pager, vm) on a pager that already has pages does not run
\* the bootstrap CREATE TABLE schema: vm.execute is not called, no
\* generator is made, and the pager is as it was.
C10_BootstrapSkipped ==
    [][(compiler.state = "none" /\ compiler'.state # "none" /\ pager.len > 0)
       => /\ compiler'.state = "ready"
          /\ compiler'.bootstrap = "skipped"
          /\ ~compiler'.vm_execute_called
          /\ ex' = ex
          /\ pager' = pager]_vars

\* a Compiler built on a file with pages
C10_Witness ==
    /\ compiler.state = "ready" /\ compiler.bootstrap = "skipped"
    /\ compiler.vm = "vmV1" /\ pager.len > 0

\* C11: Compiler(pager, vm) on a pager with no page compiles the bootstrap
\* CREATE TABLE schema and runs it to its end through vm before __init__
\* returns: the construction neither raises nor waits for ever on the
\* generator, and a Compiler that is ready for compile() has its bootstrap
\* behind it.
C11_BootstrapRunsToCompletion ==
    /\ compiler.state = "constructing" => ~Spins(ex, pager)
    /\ compiler.bootstrap \in {"none", "running", "ran", "skipped"}
    /\ compiler.state \in {"ready", "compiling"} => compiler.bootstrap \in {"ran", "skipped"}

C13_MultipleStatementsUnsupported ==
    (program.origin \in SqlTexts /\ program.status # "none" /\ Len(prepare(program.origin)) > 1)
    => /\ program.status = "MultipleStatementsUnsupported"
       /\ program.instructions = <<>>
       /\ program.unresolved = <<>>

\* C14: a Program compiled from a select starts with Init and has no other
\* Init; Init.p2 is the index of a Transaction that stands after the Halt,
\* and the instruction after that Transaction is a Goto with p2 = 1.
C14_SelectLayout ==
    (/\ program.origin \in SqlTexts /\ program.status = "ok"
     /\ prepare(program.origin)[1].stmt = "select")
    => /\ program.instructions[1].opcode = "Init"
       /\ \A k \in 2..Len(program.instructions) : program.instructions[k].opcode # "Init"
       /\ IsInt(program.instructions[1].p2)
       /\ program.instructions[1].p2.int + 2 \in 1..Len(program.instructions)
       /\ program.instructions[program.instructions[1].p2.int + 1].opcode = "Transaction"
       /\ \E h \in 1..program.instructions[1].p2.int : program.instructions[h].opcode = "Halt"
       /\ program.instructions[program.instructions[1].p2.int + 2].opcode = "Goto"
       /\ program.instructions[program.instructions[1].p2.int + 2].p2 = IntV(1)

\* C15: while the Program compiled from a select or an insert on table T
\* runs, every cursor it has opened is on the tree whose root page is the
\* root_page_number the catalog records for T (page 0 for the schema table
\* only).
C15_CursorOnTableRoot ==
    (/\ ex.origin \in SqlTexts /\ ex.origin = program.origin /\ program.status = "ok"
     /\ prepare(ex.origin)[1].stmt \in {"select", "insert"})
    => \A c \in DOMAIN ex.btrees :
          IntV(ex.btrees[c].root) =
             get_table_root_page_number(TableOf(prepare(ex.origin)[1]), program.schema).value

\* C16: compile of an insert of n values into a table of the catalog gives
\* a Program with n literal loads after Integer and OpenWrite, the i-th an
\* Integer for a numeric literal and a String for a string literal, into
\* consecutive registers from `first` on; then MakeRecord with p1 = first,
\* p2 = n and p3 outside those registers, then Insert, then Close.
C16_InsertLiteralLoads ==
    (/\ program.origin = InsertTText /\ program.status # "none"
     /\ program.schema.rows = MockSchemaT)
    => /\ program.status = "ok"
       /\ Len(program.instructions) = Len(prepare(InsertTText)[1].values) + 5
       /\ \A i \in 1..Len(prepare(InsertTText)[1].values) :
             /\ program.instructions[2 + i].opcode =
                   (IF prepare(InsertTText)[1].values[i].kind = "numeric"
                    THEN "Integer" ELSE "String")
             /\ program.instructions[2 + i].p2 = IntV(program.instructions[3].p2.int + i - 1)
       /\ program.instructions[Len(program.instructions) - 2].opcode = "MakeRecord"
       /\ program.instructions[Len(program.instructions) - 2].p1 = program.instructions[3].p2
       /\ program.instructions[Len(program.instructions) - 2].p2 =
             IntV(Len(prepare(InsertTText)[1].values))
       /\ program.instructions[Len(program.instructions) - 2].p3 \notin
             program.instructions[3].p2.int ..
                (program.instructions[3].p2.int + Len(prepare(InsertTText)[1].values) - 1)
       /\ program.instructions[Len(program.instructions) - 1].opcode = "Insert"
       /\ program.instructions[Len(program.instructions)].opcode = "Close"

\* C17: the record a compiled CREATE TABLE assembles for the catalog has its
\* fields in the order (type, name, table_name, sql_text, root_page_number)
\* behind the row id, so that a row read back as (id, fields...) has the
\* SQL text at index 4 and the root page number at index 5: the register
\* loaded with the SQL text is the fourth and the register CreateTable
\* fills is the fifth of the registers MakeRecord reads.
C17_CatalogFieldOrder ==
    (program.origin \in {CreateTText, SCHEMA_TABLE_SQL_TEXT} /\ program.status = "ok")
    => \E m \in 1..Len(program.instructions) :
          /\ program.instructions[m].opcode = "MakeRecord"
          /\ program.instructions[m].p2 = IntV(5)
          /\ \E k \in 1..Len(program.instructions) :
                /\ program.instructions[k].opcode = "String"
                /\ program.instructions[k].p4 = StrV(program.origin)
                /\ program.instructions[k].p2 = IntV(program.instructions[m].p1.int + 3)
          /\ \E k \in 1..Len(program.instructions) :
                /\ program.instructions[k].opcode = "CreateTable"
                /\ program.instructions[k].p1 = IntV(program.instructions[m].p1.int + 4)

\* C18: the CreateTable (or CreateBtree) of a running compiled CREATE TABLE
\* allocates a new page and stores its number in its register operand, one
\* of the registers the MakeRecord after it reads; and the root pages the
\* catalog rows record are different from page 0 and from each other.
C18_CreateTableAllocatesRoot ==
    /\ (/\ ex.origin \in {CreateTText, SCHEMA_TABLE_SQL_TEXT}
        /\ ex.status = "running" /\ Fetchable(ex)
        /\ ex.prog[ex.pc + 1].opcode \in {"CreateTable", "CreateBtree"})
       => /\ Exec(ex, pager).pager.len = pager.len + 1
          /\ ex.prog[ex.pc + 1].p1.int \in DOMAIN Exec(ex, pager).ex.registers
          /\ Exec(ex, pager).ex.registers[ex.prog[ex.pc + 1].p1.int] = IntV(pager.len)
          /\ \E m \in (ex.pc + 2)..Len(ex.prog) :
                /\ ex.prog[m].opcode = "MakeRecord"
                /\ ex.prog[ex.pc + 1].p1.int \in
                      ex.prog[m].p1.int .. (ex.prog[m].p1.int + ex.prog[m].p2.int - 1)
    /\ pager.len > 0
       => \A i, j \in 1..Len(pager.trees[0]) :
             /\ pager.trees[0][i].record[4][2] # IntV(0)
             /\ i # j => pager.trees[0][i].record[4][2] # pager.trees[0][j].record[4][2]

C20_InsertKeyedByP3 ==
    [][(/\ ex.status = "running" /\ Fetchable(ex)
        /\ ex.prog[ex.pc + 1].opcode = "Insert"
        /\ ex'.status # "error")
       => /\ ex.prog[ex.pc + 1].p3 \in DOMAIN ex.registers
          /\ Len(ex'.btrees[ex.prog[ex.pc + 1].p1.int].tree) =
                Len(ex.btrees[ex.prog[ex.pc + 1].p1.int].tree) + 1
          /\ \E k \in 1..Len(ex'.btrees[ex.prog[ex.pc + 1].p1.int].tree) :
                /\ ex'.btrees[ex.prog[ex.pc + 1].p1.int].tree[k].row_id =
                      ex.registers[ex.prog[ex.pc + 1].p3]
                /\ ex'.btrees[ex.prog[ex.pc + 1].p1.int].tree[k].record =
                      ex.registers[ex.prog[ex.pc + 1].p2.int].record
          /\ ex'.registers[ex.prog[ex.pc + 1].p3] = ex.registers[ex.prog[ex.pc + 1].p3]
          /\ ex'.registers[ex.prog[ex.pc + 1].p2.int] =
                ex.registers[ex.prog[ex.pc + 1].p2.int]]_vars

\* C23: after an executed Rewind on cursor p1 the cursor stands on the
\* first row of its tree and execution falls through, also when a Next had
\* advanced the cursor before; on an empty tree Rewind jumps to p2.
C23_RewindToFirstRow ==
    [][(/\ ex.status = "running" /\ Fetchable(ex)
        /\ ex.prog[ex.pc + 1].opcode = "Rewind"
        /\ ex'.status # "error")
       => IF ex.btrees[ex.prog[ex.pc + 1].p1.int].tree = <<>>
          THEN ex'.pc = ex.prog[ex.pc + 1].p2.int
          ELSE /\ ex'.pc = ex.pc + 1
               /\ peek(ex'.btrees[ex.prog[ex.pc + 1].p1.int]).value =
                     ex.btrees[ex.prog[ex.pc + 1].p1.int].tree[1]]_vars

\* C26: MustBeInt on register p1 leaves the integer in the register and
\* falls through when the value is an integer or converts to one; for
\* every other value, None included, the register is unchanged and
\* execution jumps to p2 when p2 # 0 and fails with the type-mismatch
\* error when p2 = 0.
C26_MustBeIntCoercesOrJumps ==
    [][(/\ ex.status = "running" /\ Fetchable(ex)
        /\ ex.prog[ex.pc + 1].opcode = "MustBeInt"
        /\ HasRegister(ex, ex.prog[ex.pc + 1].p1))
       => LET instruction == ex.prog[ex.pc + 1]
              v == ex.registers[instruction.p1.int]
          IN IF IsInt(v) \/ (IsStr(v) /\ IsNumeric(v.str))
             THEN /\ ex'.status = "running" /\ ex'.pc = ex.pc + 1
                  /\ ex'.registers[instruction.p1.int] =
                        (IF IsInt(v) THEN v ELSE IntV(StrToInt(v.str)))
             ELSE /\ ex'.registers[instruction.p1.int] = v
                  /\ IF instruction.p2 = IntV(0)
                     THEN /\ ex'.status = "error"
                          /\ ex'.exc = [type |-> "ValueError", arg |-> StrV("TOYSQL TYPE MISMATCH")]
                     ELSE ex'.status = "running" /\ ex'.pc = instruction.p2.int]_vars

\* C30: when the program counter has moved past the last instruction, the
\* execution ends as after a Halt with p1 = 0: it is done, without error.
C30_EndOfProgramHalts ==
    [][(ex.status = "running" /\ ex.pc >= Len(ex.prog))
       => (ex'.status = "done" /\ ex'.exc = None)]_vars

\* C24: an executed Next on cursor p1 moves the cursor from its row to
\* the row that follows it in the tree, and to no row after the last one;
\* it jumps to p2 exactly when there is a row at the new position and
\* falls through otherwise.
C24_NextAdvancesOneRow ==
    [][(/\ ex.status = "running" /\ Fetchable(ex)
        /\ ex.prog[ex.pc + 1].opcode = "Next"
        /\ ex'.status # "error")
       => LET instruction == ex.prog[ex.pc + 1]
              tree == ex.btrees[instruction.p1.int].tree
              before == peek(ex.btrees[instruction.p1.int]).value
              after == peek(ex'.btrees[instruction.p1.int]).value
          IN /\ IF IsNone(before) THEN IsNone(after)
                ELSE \E i \in 1..Len(tree) :
                        /\ tree[i] = before
                        /\ after = (IF i < Len(tree) THEN tree[i + 1] ELSE None)
             /\ ex'.pc = (IF IsNone(after) THEN ex.pc + 1 ELSE instruction.p2.int)]_vars

\* a scan of two rows has ended: its Next jumped after the first row and
\* fell through after the second
C24_Witness ==
    /\ ex.origin = "ScanT" /\ ex.status = "done"
    /\ Len(ex.rows) = 2
    /\ ex.btrees[0].pos = 2 /\ ex.btrees[0].ended

\* C21: within one execution a cursor opened on root page r after an
\* Insert through another cursor on r scans the inserted row, and two
\* cursors on the same root page are one traversal: they hold the same
\* rows and stand on the same row.
C21_CursorsShareTraversal ==
    [][ex'.status \in {"running", "yielded", "done"}
       => /\ (/\ ex.status = "running" /\ Fetchable(ex)
              /\ ex.prog[ex.pc + 1].opcode = "OpenRead")
             => \A c \in DOMAIN ex.btrees :
                   ex.btrees[c].root = ex.prog[ex.pc + 1].p2.int
                   => \A i \in 1..Len(ex.btrees[c].tree) :
                         \E j \in 1..Len(ex'.btrees[ex.prog[ex.pc + 1].p1.int].tree) :
                            ex'.btrees[ex.prog[ex.pc + 1].p1.int].tree[j] = ex.btrees[c].tree[i]
          /\ \A c, d \in DOMAIN ex'.btrees :
                ex'.btrees[c].root = ex'.btrees[d].root
                => /\ ex'.btrees[c].tree = ex'.btrees[d].tree
                   /\ peek(ex'.btrees[c]).value = peek(ex'.btrees[d]).value]_vars

\* C25: the execution of a compiled select on table t comes to rest only
\* by ending without error, and has then yielded one row per row of the
\* tree of t, in ascending key order (none for an empty tree).
C25_SelectYieldsEveryRow ==
    (/\ ex.origin \in {SelectTText, SelectBText}
     /\ ex.origin = program.origin /\ program.status = "ok"
     /\ pager.len > 1
     /\ (ex.status \in {"done", "error"} \/ Spins(ex, pager)))
    => /\ ex.status = "done"
       /\ Len(ex.rows) = Len(pager.trees[1])
       /\ \A i \in 1..Len(ex.rows) : ex.rows[i][1] = pager.trees[1][i].row_id

\* C22: every call of VM.execute starts with no register and no cursor,
\* whatever an earlier or a suspended execution of the VM holds, and a
\* step or pull of one execution leaves the registers, the cursors and
\* the position of the other as they were.
C22_ExecutionsOwnTheirFrames ==
    [][/\ (ex.status = "none" /\ ex'.status = "created")
          => (ex'.registers = <<>> /\ ex'.btrees = <<>> /\ ex'.pc = 0)
       /\ \/ suspended' = suspended
          \/ (suspended' = ex /\ ex' = suspended)]_vars

\* a scan that has yielded a row is held while an insert, begun after it,
\* has written registers of its own and yielded
C22_Witness ==
    /\ suspended.origin = "ScanT" /\ suspended.status = "yielded"
    /\ suspended.registers[1] = IntV(2)
    /\ ex.origin = "InsertT" /\ ex.status = "yielded"
    /\ ex.registers[1] = IntV(3)
    /\ DOMAIN ex.registers = {1, 2, 3} /\ DOMAIN suspended.registers = {1, 2}

\* C27: after any sequence of add calls with distinct row ids, search(k)
\* returns the cell with row id k for every k handed to add, and fails
\* with NotFoundException for every other k.
C27_AddedKeysAreFound ==
    \A k \in 1..MaxKey :
       IF k \in bptree.added
       THEN /\ search(bptree.tree, k).status = "ok"
            /\ search(bptree.tree, k).cell = LeafPageCell(<<k>>)
       ELSE search(bptree.tree, k).status = "NotFoundException"

\* C28: after any sequence of add calls the cells of the root are in
\* ascending key order without duplicates, the root holds at most
\* order - 1 keys, and the tree's one leaf is at one depth.
C28_BPlusTreeInvariants ==
    /\ \A i, j \in 1..Len(bptree.tree.root.cells) :
          i < j => bptree.tree.root.cells[i].row_id < bptree.tree.root.cells[j].row_id
    /\ Len(bptree.tree.root.cells) <= bptree.tree.order - 1
    /\ bptree.tree.root.page_type = "leaf"

\* C29: an add whose cell does not fit in the free space of the target
\* leaf completes without error, with the cell stored in the tree.
C29_AddSplitsFullLeaf ==
    [][(/\ bptree'.result.op = "add" /\ bptree'.added # bptree.added
        /\ PAGE_SIZE - PageLen(bptree.tree.root) < LEAF_NODE_CELL_SIZE)
       => /\ bptree'.result.status = "ok"
          /\ search(bptree'.tree, bptree'.result.key).status = "ok"]_vars

\* C31: the loop iteration that fetches Close with operand p1 takes cursor
\* p1 out of the cursor table of the execution and advances the program
\* counter by one; the registers and the other cursors stay as they were.
C31_CloseReleasesCursor ==
    (/\ ex.status = "running" /\ Fetchable(ex)
     /\ ex.prog[ex.pc + 1].opcode = "Close"
     /\ HasCursor(ex, ex.prog[ex.pc + 1].p1))
    => /\ Exec(ex, pager).ex.pc = ex.pc + 1
       /\ DOMAIN Exec(ex, pager).ex.btrees = DOMAIN ex.btrees \ {ex.prog[ex.pc + 1].p1.int}
       /\ \A c \in DOMAIN Exec(ex, pager).ex.btrees : Exec(ex, pager).ex.btrees[c] = ex.btrees[c]
       /\ Exec(ex, pager).ex.registers = ex.registers

\* C32: the loop iteration that fetches an instruction, whatever member
\* of Opcode it is, moves the program counter or ends the execution (with
\* an error, or as Halt does): it never leaves the execution where it was.
C32_NoSilentNoOp ==
    (ex.status = "running" /\ Fetchable(ex))
    => \/ Exec(ex, pager).ex.pc # ex.pc
       \/ Exec(ex, pager).ex.status = "error"
       \/ (ex.prog[ex.pc + 1].opcode = "Halt" /\ Exec(ex, pager).ex.status = "done")

\* C33: an executed NotExists on cursor p1 jumps to p2 when the tree holds
\* no row with the id of register p3; when it holds one, execution falls
\* through without error and the cursor stands on that row.
C33_NotExistsFallsThrough ==
    [][(/\ ex.status = "running" /\ Fetchable(ex)
        /\ ex.prog[ex.pc + 1].opcode = "NotExists"
        /\ HasCursor(ex, ex.prog[ex.pc + 1].p1)
        /\ HasRegister(ex, IntV(ex.prog[ex.pc + 1].p3)))
       => IF \E i \in 1..Len(ex.btrees[ex.prog[ex.pc + 1].p1.int].tree) :
                ex.btrees[ex.prog[ex.pc + 1].p1.int].tree[i].row_id =
                   ex.registers[ex.prog[ex.pc + 1].p3]
          THEN /\ ex'.status = "running" /\ ex'.pc = ex.pc + 1
               /\ peek(ex'.btrees[ex.prog[ex.pc + 1].p1.int]).value.row_id =
                     ex.registers[ex.prog[ex.pc + 1].p3]
          ELSE ex'.status = "running" /\ ex'.pc = ex.prog[ex.pc + 1].p2.int]_vars

\* C37: every MakeRecord of a Program that compile returned carries in p4
\* an affinity string with one character per field (p2 characters), so
\* that the assert of the MakeRecord handler holds for it.
C37_MakeRecordHasAffinity ==
    (program.origin \in SqlTexts /\ program.status = "ok")
    => \A i \in 1..Len(program.instructions) :
          program.instructions[i].opcode = "MakeRecord"
          => /\ IsAff(program.instructions[i].p4)
             /\ Len(program.instructions[i].p4.aff) = program.instructions[i].p2.int

\* C34: the k-th allocation of the Memory of a compile returns k - 1,
\* whatever was compiled before, and the first register a compiled
\* Program names (the p2 of its leading Integer) is 0.
C34_RegistersCountFromZero ==
    /\ \A k \in 1..MaxAllocs : Alloc(Memory(Memory_address), k) = k - 1
    /\ (program.origin \in SqlTexts /\ program.status = "ok")
       => /\ program.instructions[1].opcode = "Integer"
          /\ program.instructions[1].p2 = IntV(0)
          /\ \A i \in 1..Len(program.instructions) :
                program.instructions[i].opcode = "Column"
                => program.instructions[i].p3 = i - 3

\* a create was compiled (eight allocations), and a select after it
C34_Witness ==
    /\ history.sql_text = CreateTText /\ history.between
    /\ program.origin = SelectTText /\ program.status = "ok"
    /\ program.instructions[1].p2 = IntV(0)
    /\ program.instructions[5].p3 = 2

\* the 1-based positions of the instructions with an opcode
PositionsOf(instructions, opcode) ==
    {i \in 1..Len(instructions) : instructions[i].opcode = opcode}

\* the program in hand was compiled from a Select
IsCompiledSelect ==
    /\ program.origin \in {SelectSchemaText, SelectTText, SelectBText}
    /\ program.status = "ok"

ResultRowRegisters(instruction) ==
    [i \in 1..(instruction.p2.int - instruction.p1.int + 1) |-> instruction.p1.int + i - 1]

\* the registers the Key and the Columns of a program write, in list order
LoopBodyTargets(instructions) ==
    LET Targets[i \in 0..Len(instructions)] ==
            IF i = 0 THEN <<>>
            ELSE IF instructions[i].opcode = "Key" THEN Append(Targets[i - 1], instructions[i].p2.int)
            ELSE IF instructions[i].opcode = "Column" THEN Append(Targets[i - 1], instructions[i].p3)
            ELSE Targets[i - 1]
    IN Targets[Len(instructions)]

\* the execution in hand runs a Program compiled from a Select
ExecutesCompiledSelect ==
    /\ ex.origin \in {SelectSchemaText, SelectTText, SelectBText}
    /\ ex.status = "running" /\ Fetchable(ex)

\* C36: the ResultRow of a compiled Select names the register of the Key
\* followed by the registers of the Columns, in column order, the
\* register of the root page number not among them; the loop iteration
\* at the Key writes the Key's register, and the iteration at the
\* ResultRow finds all of them set and yields their values.
C36_ResultRowEmitsKeyAndColumns ==
    /\ IsCompiledSelect
       => \A x \in PositionsOf(program.instructions, "ResultRow") :
             /\ ResultRowRegisters(program.instructions[x]) = LoopBodyTargets(program.instructions)
             /\ Len(ResultRowRegisters(program.instructions[x]))
                   = Cardinality(PositionsOf(program.instructions, "Column")) + 1
             /\ \A i \in 1..Len(ResultRowRegisters(program.instructions[x])) :
                   IntV(ResultRowRegisters(program.instructions[x])[i]) # program.instructions[1].p2
    /\ (ExecutesCompiledSelect /\ ex.prog[ex.pc + 1].opcode = "Key")
       => HasRegister(Exec(ex, pager).ex, ex.prog[ex.pc + 1].p2)
    /\ (ExecutesCompiledSelect /\ ex.prog[ex.pc + 1].opcode = "ResultRow")
       => /\ \A i \in 1..Len(ResultRowRegisters(ex.prog[ex.pc + 1])) :
                HasRegister(ex, IntV(ResultRowRegisters(ex.prog[ex.pc + 1])[i]))
          /\ Exec(ex, pager).ex.status = "yielded"

\* C39: the loop of VM.execute runs only while a pull is being served.  An
\* execution that was just created has executed nothing; an execution
\* that is created or stands at a yield is only resumed by a pull,
\* dropped, or put aside unchanged, and nothing is written to the pager
\* meanwhile; an execution starts running only by a pull.
C39_PullDriven ==
    [][/\ (ex'.status = "created" /\ ex' # ex /\ ex' # suspended)
          => /\ ex'.pc = 0 /\ ex'.rows = <<>> /\ ex'.registers = <<>> /\ ex'.btrees = <<>>
             /\ pager' = pager
       /\ ex.status \in {"created", "yielded"}
          => /\ pager' = pager
             /\ \/ ex' = ex
                \/ ex' = Resume(ex)
                \/ ex' = NoExecution
                \/ ex' = suspended /\ suspended' = ex
       /\ (ex'.status = "running" /\ ex.status # "running")
          => ex.status \in {"created", "yielded"} /\ ex' = Resume(ex)
       /\ suspended' # suspended
          => suspended' = ex /\ ex' = suspended /\ pager' = pager]_vars

\* a row was yielded and the Insert behind the ResultRow has not run:
\* the tree of page 1 is as the database file had it
C39_Witness ==
    /\ ex.origin = "YieldThenInsert" /\ ex.status = "yielded"
    /\ ex.pc = 2 /\ Len(ex.rows) = 1
    /\ ex.prog[5].opcode = "Insert"
    /\ pager \in Databases

\* the value the i-th next of a PeekIterator over a tree has to return
ScanThenNone(tree, i) == IF i <= Len(tree) THEN tree[i] ELSE None

\* C38: whatever peeks came between them, the values next returned are
\* the rows of the tree in scan order, then None each time; a peek
\* returns what the following next returns, and returns a value each
\* time like next (None past the end, never StopIteration).
C38_PeekIteratorKeepsTheScan ==
    /\ \A i \in 1..Len(iterator.returned) :
          iterator.returned[i] = ScanThenNone(pager.trees[0], i)
    /\ (~IsNone(iterator.result) /\ iterator.result.op = "peek")
       => /\ iterator.result.value = ScanThenNone(pager.trees[0], Len(iterator.returned) + 1)
          /\ next(iterator.it).value = iterator.result.value
    /\ ~IsNone(iterator.it)
       => /\ next(iterator.it).value \in {pager.trees[0][i] : i \in 1..Len(pager.trees[0])} \cup {None}
          /\ peek(iterator.it).value = next(iterator.it).value
          /\ next(peek(iterator.it).it) = next(iterator.it)

\* a peek, a next, a peek and a next over two rows, then a next past
\* the end
C38_Witness ==
    /\ Len(pager.trees[0]) = 2
    /\ iterator.calls = 5
    /\ iterator.returned = <<pager.trees[0][1], pager.trees[0][2], None>>
    /\ iterator.it.peeked = <<>>

=============================================================================
